---- MODULE Spec2Model ----
(***************************************************************************)
(* A model of the transaction codec of financial-rust: the domain model,   *)
(* the CSV, Text and Binary encoders/decoders, the format dispatcher and   *)
(* the converter front-end.                                                *)
(*                                                                         *)
(* A Rust String is modelled as a sequence of one-character strings, a     *)
(* text stream (CSV, Text) as the sequence of characters it holds and a    *)
(* binary stream as a sequence of bytes 0..255.  Option<T> is modelled as  *)
(* the value None or a record [some |-> v].                                *)
(***************************************************************************)
EXTENDS Integers, Sequences, FiniteSets, TLC

VARIABLES
  batch,    \* the TransactionBatch the library's caller holds
  stream,   \* the content of the current stream (file, stdout)
  sfmt,     \* the format the current stream is written in
  prev,     \* the stream the converter read
  pfmt,     \* the format the converter read it in
  decoded,  \* the outcome of the converter's parse
  result,   \* the outcome of the last call of parse
  rfmt,     \* the format of the last call of parse
  pc,       \* what has been done so far
  frame,    \* the locals of a call of parse_text that reads its input line by line
  cmp,      \* a run of the comparer: its arguments and what it did
  args      \* the format tags on the command line of a run of the converter

vars == <<batch, stream, sfmt, prev, pfmt, decoded, result, rfmt, pc, frame, cmp, args>>

(***************************************************************************)
(* Bounds of the model.                                                    *)
(***************************************************************************)
MaxTx == 2
MaxLines == 5

(***************************************************************************)
(* Option<T>                                                               *)
(***************************************************************************)
None == [none |-> TRUE]
Some(v) == [some |-> v]
IsSome(o) == o # None

(***************************************************************************)
(* Characters and strings                                                  *)
(***************************************************************************)
Q == "\""
NL == "\n"
CR == "\r"
TAB == "\t"
SP == " "
COMMA == ","

\* char::is_whitespace on the characters of the model (str::trim uses it)
IsWhitespace(c) == c \in {SP, NL, CR, TAB}

Digits == <<"0", "1", "2", "3", "4", "5", "6", "7", "8", "9">>
IsDigit(c) == \E i \in 1..10 : Digits[i] = c
DigitVal(c) == (CHOOSE i \in 1..10 : Digits[i] = c) - 1

\* the concatenation of a sequence of strings
RECURSIVE Concat(_)
Concat(ss) == IF ss = <<>> THEN <<>> ELSE Head(ss) \o Concat(Tail(ss))

\* str::contains(char)
Contains(s, c) == \E i \in 1..Len(s) : s[i] = c

\* str::starts_with / the test inside str::strip_prefix
StartsWith(s, p) == Len(s) >= Len(p) /\ \A i \in 1..Len(p) : s[i] = p[i]

\* str::strip_prefix: Some(rest) when s starts with p
StripPrefix(s, p) == IF StartsWith(s, p) THEN Some(SubSeq(s, Len(p) + 1, Len(s))) ELSE None

\* str::trim: drop leading and trailing whitespace
TrimStartIdx(s) ==
  IF \A i \in 1..Len(s) : IsWhitespace(s[i]) THEN Len(s) + 1
  ELSE CHOOSE i \in 1..Len(s) : ~IsWhitespace(s[i]) /\ \A j \in 1..(i - 1) : IsWhitespace(s[j])
TrimEndIdx(s) ==
  IF \A i \in 1..Len(s) : IsWhitespace(s[i]) THEN 0
  ELSE CHOOSE i \in 1..Len(s) : ~IsWhitespace(s[i]) /\ \A j \in (i + 1)..Len(s) : IsWhitespace(s[j])
Trim(s) == SubSeq(s, TrimStartIdx(s), TrimEndIdx(s))

\* str::split_whitespace: the maximal runs of non-whitespace characters
RECURSIVE SplitWsFrom(_, _, _, _)
SplitWsFrom(s, i, cur, acc) ==
  IF i > Len(s) THEN (IF cur = <<>> THEN acc ELSE Append(acc, cur))
  ELSE IF IsWhitespace(s[i])
       THEN SplitWsFrom(s, i + 1, <<>>, IF cur = <<>> THEN acc ELSE Append(acc, cur))
       ELSE SplitWsFrom(s, i + 1, Append(cur, s[i]), acc)
SplitWhitespace(s) == SplitWsFrom(s, 1, <<>>, <<>>)

\* BufRead::lines: the stream cut at every '\n'; a line's '\n' and a '\r' before
\* it are dropped; no line follows the final '\n'; an empty stream has no line
NewlinePositions(s) == {i \in 1..Len(s) : s[i] = NL}
Lines(s) ==
  LET nl == NewlinePositions(s)
      n == Cardinality(nl) + (IF s # <<>> /\ s[Len(s)] # NL THEN 1 ELSE 0)
      \* the position of the k-th newline; 0 before the first line and
      \* Len(s) + 1 after an unterminated last one
      at(k) == IF k = 0 THEN 0
               ELSE IF k > Cardinality(nl) THEN Len(s) + 1
               ELSE CHOOSE i \in nl : Cardinality({j \in nl : j <= i}) = k
      raw(k) == SubSeq(s, at(k - 1) + 1, at(k) - 1)
      line(k) == IF raw(k) # <<>> /\ raw(k)[Len(raw(k))] = CR
                 THEN SubSeq(raw(k), 1, Len(raw(k)) - 1) ELSE raw(k)
  IN [k \in 1..n |-> line(k)]

(***************************************************************************)
(* Decimal numerals                                                        *)
(***************************************************************************)
\* the decimal digits of a natural number, most significant first
RECURSIVE NatDigits(_)
NatDigits(n) == IF n < 10 THEN <<Digits[n + 1]>> ELSE Append(NatDigits(n \div 10), Digits[(n % 10) + 1])

\* n written with at least w digits, zero padded on the left ({:0w})
RECURSIVE PadLeft(_, _)
PadLeft(ds, w) == IF Len(ds) >= w THEN ds ELSE PadLeft(<<"0">> \o ds, w)
NatPadded(n, w) == PadLeft(NatDigits(n), w)

\* the value of a non-empty digit string
RECURSIVE DigitsVal(_)
DigitsVal(ds) == IF ds = <<>> THEN 0 ELSE DigitsVal(SubSeq(ds, 1, Len(ds) - 1)) * 10 + DigitVal(ds[Len(ds)])

AllDigits(s) == s # <<>> /\ \A i \in 1..Len(s) : IsDigit(s[i])

(***************************************************************************)
(* rust_decimal::Decimal: a sign, a mantissa and a scale (the number of    *)
(* fractional digits).  The pools below stay within its 96-bit mantissa    *)
(* and scale <= 28, so its rounding of longer numerals is never reached.   *)
(***************************************************************************)
Dec(neg, m, scale) == [neg |-> neg, m |-> m, scale |-> scale]

\* Decimal::ZERO
DecimalZero == Dec(FALSE, 0, 0)

\* a faulty variant of DecimalToString: the numeral normalised, trailing fractional
\* zeros dropped ("1000.50" written as "1000.5")
RECURSIVE StripZeros(_, _)
StripZeros(m, scale) ==
  IF scale > 0 /\ m % 10 = 0 THEN StripZeros(m \div 10, scale - 1) ELSE <<m, scale>>
DecimalToStringNormalized(d) ==
  LET n == StripZeros(d.m, d.scale)
      ds == NatPadded(n[1], n[2] + 1)
      k == Len(ds) - n[2]
  IN (IF d.neg THEN <<"-">> ELSE <<>>)
       \o SubSeq(ds, 1, k)
       \o (IF n[2] = 0 THEN <<>> ELSE <<".">> \o SubSeq(ds, k + 1, Len(ds)))

\* Decimal's Display (to_string, "{}"): every digit of the mantissa, the point
\* placed `scale` digits from the right, no digit dropped or added
DecimalToString(d) ==
  LET ds == NatPadded(d.m, d.scale + 1)
      k == Len(ds) - d.scale
  IN (IF d.neg THEN <<"-">> ELSE <<>>)
       \o SubSeq(ds, 1, k)
       \o (IF d.scale = 0 THEN <<>> ELSE <<".">> \o SubSeq(ds, k + 1, Len(ds)))

\* Decimal::from_str: an optional sign, digits with at most one point, at least
\* one digit; the scale is the number of digits after the point
DecimalFromStr(s) ==
  LET signed == s # <<>> /\ s[1] \in {"-", "+"}
      body == IF signed THEN SubSeq(s, 2, Len(s)) ELSE s
      points == {i \in 1..Len(body) : body[i] = "."}
      p == IF points = {} THEN Len(body) + 1 ELSE CHOOSE i \in points : TRUE
      ds == SubSeq(body, 1, p - 1) \o SubSeq(body, p + 1, Len(body))
      m == DigitsVal(ds)
  IN IF Cardinality(points) <= 1 /\ AllDigits(ds)
     THEN [ok |-> TRUE,
           v |-> Dec(signed /\ s[1] = "-" /\ m # 0, m, Len(body) - p + (IF points = {} THEN 1 ELSE 0))]
     ELSE [ok |-> FALSE, e |-> "invalid decimal"]

(***************************************************************************)
(* chrono::NaiveDate and chrono::NaiveDateTime                             *)
(***************************************************************************)
Date(y, m, d) == [y |-> y, m |-> m, d |-> d]
DateTime(date, h, mi, s, nano) == [date |-> date, h |-> h, mi |-> mi, s |-> s, nano |-> nano]

IsLeap(y) == (y % 4 = 0 /\ y % 100 # 0) \/ y % 400 = 0
DaysInMonth(y, m) ==
  IF m = 2 THEN (IF IsLeap(y) THEN 29 ELSE 28)
  ELSE IF m \in {4, 6, 9, 11} THEN 30 ELSE 31
ValidDate(y, m, d) == m \in 1..12 /\ d >= 1 /\ d <= DaysInMonth(y, m)

\* DEFAULT_DATE, 1970-01-01
DEFAULT_DATE == Date(1970, 1, 1)

SecsPerDay == 24 * 60 * 60

\* NaiveDate::num_days_from_ce
RECURSIVE DaysBeforeMonth(_, _)
DaysBeforeMonth(y, m) == IF m = 1 THEN 0 ELSE DaysBeforeMonth(y, m - 1) + DaysInMonth(y, m - 1)
NumDaysFromCe(dt) ==
  LET p == dt.y - 1
  IN 365 * p + (p \div 4) - (p \div 100) + (p \div 400) + DaysBeforeMonth(dt.y, dt.m) + dt.d

\* the day number of 1970-01-01 (0001-01-01 is day 1)
UnixEpochDayCE == NumDaysFromCe(Date(1970, 1, 1))

\* NaiveDate::from_num_days_from_ce_opt, by the civil-from-days computation
\* on 400-year eras starting on 1 March
DateFromDaysCe(n) ==
  LET z == n + 305
      era == z \div 146097
      doe == z - era * 146097
      yoe == (doe - (doe \div 1460) + (doe \div 36524) - (doe \div 146096)) \div 365
      doy == doe - (365 * yoe + (yoe \div 4) - (yoe \div 100))
      mp == (5 * doy + 2) \div 153
      d == doy - ((153 * mp + 2) \div 5) + 1
      m == IF mp < 10 THEN mp + 3 ELSE mp - 9
      y == yoe + era * 400 + (IF m <= 2 THEN 1 ELSE 0)
  IN Date(y, m, d)

\* NaiveDate::format("%Y-%m-%d") for the years 0000..9999
FormatDate(dt) == NatPadded(dt.y, 4) \o <<"-">> \o NatPadded(dt.m, 2) \o <<"-">> \o NatPadded(dt.d, 2)

\* NaiveDate::parse_from_str(s, "%Y-%m-%d") on text of the shape DDDD-DD-DD: a
\* calendar date, or an error
ParseDate(s) ==
  IF /\ Len(s) = 10
     /\ s[5] = "-" /\ s[8] = "-"
     /\ \A i \in {1, 2, 3, 4, 6, 7, 9, 10} : IsDigit(s[i])
     /\ ValidDate(DigitsVal(SubSeq(s, 1, 4)), DigitsVal(SubSeq(s, 6, 7)), DigitsVal(SubSeq(s, 9, 10)))
  THEN [ok |-> TRUE,
        v |-> Date(DigitsVal(SubSeq(s, 1, 4)), DigitsVal(SubSeq(s, 6, 7)), DigitsVal(SubSeq(s, 9, 10)))]
  ELSE [ok |-> FALSE, e |-> "invalid date"]

\* NaiveDateTime::format("%Y-%m-%d %H:%M:%S"): the fraction of the second is
\* not written
FormatDateTime(t) ==
  FormatDate(t.date) \o <<SP>> \o NatPadded(t.h, 2) \o <<":">> \o NatPadded(t.mi, 2)
    \o <<":">> \o NatPadded(t.s, 2)

\* NaiveDateTime::parse_from_str(s, "%Y-%m-%d %H:%M:%S") on text of the shape
\* DDDD-DD-DD DD:DD:DD
ParseDateTime(s) ==
  LET d == ParseDate(SubSeq(s, 1, 10))
  IN IF /\ Len(s) = 19
        /\ d.ok
        /\ s[11] = SP /\ s[14] = ":" /\ s[17] = ":"
        /\ \A i \in {12, 13, 15, 16, 18, 19} : IsDigit(s[i])
        /\ DigitsVal(SubSeq(s, 12, 13)) < 24
        /\ DigitsVal(SubSeq(s, 15, 16)) < 60
        /\ DigitsVal(SubSeq(s, 18, 19)) < 60
     THEN [ok |-> TRUE,
           v |-> DateTime(d.v, DigitsVal(SubSeq(s, 12, 13)), DigitsVal(SubSeq(s, 15, 16)),
                          DigitsVal(SubSeq(s, 18, 19)), 0)]
     ELSE [ok |-> FALSE, e |-> "invalid date time"]

\* NaiveDateTime::and_utc().timestamp(): whole seconds since 1970-01-01T00:00:00
Timestamp(t) == (NumDaysFromCe(t.date) - UnixEpochDayCE) * SecsPerDay + t.h * 3600 + t.mi * 60 + t.s

\* DateTime::from_timestamp(secs, 0).naive_utc()
FromTimestamp(secs) ==
  LET days == secs \div SecsPerDay
      sod == secs % SecsPerDay
  IN DateTime(DateFromDaysCe(days + UnixEpochDayCE), sod \div 3600, (sod % 3600) \div 60, sod % 60, 0)

(***************************************************************************)
(* Domain model (domain.rs) and errors (error.rs)                          *)
(***************************************************************************)
\* TransactionKind
Debit == "Debit"
Credit == "Credit"

\* Money
Money(amount, currency) == [amount |-> amount, currency |-> currency]

\* Transaction
Transaction(id, posted_at, executed_at, kind, amount, description, account, counterparty, category) ==
  [id |-> id, posted_at |-> posted_at, executed_at |-> executed_at, kind |-> kind,
   amount |-> amount, description |-> description, account |-> account,
   counterparty |-> counterparty, category |-> category]

\* TransactionBatch
TransactionBatch(account_id, transactions) == [account_id |-> account_id, transactions |-> transactions]

\* Result<T>: Ok(v) and Err(e)
Ok(v) == [ok |-> TRUE, v |-> v]
Err(e) == [ok |-> FALSE, err |-> e]

\* Error::parse(format, message); `line` is the line number the message
\* carries, 0 when it carries none
ParseError(format, message, line) == [kind |-> "Parse", format |-> format, message |-> message, line |-> line]

\* Error::Io, from a failed read (read_exact at the end of the input)
IoError(message) == [kind |-> "Io", format |-> "", message |-> message, line |-> 0]

(***************************************************************************)
(* String literals of the codecs                                           *)
(***************************************************************************)
S_Debit == <<"D", "e", "b", "i", "t">>
S_Credit == <<"C", "r", "e", "d", "i", "t">>
S_TransactionId == <<"T", "r", "a", "n", "s", "a", "c", "t", "i", "o", "n", "I", "d">>
S_CsvHeader ==
  <<"T", "r", "a", "n", "s", "a", "c", "t", "i", "o", "n", "I", "d", ",", "P", "o", "s", "t", "e", "d", "D", "a", "t", "e", ",">>
    \o <<"E", "x", "e", "c", "u", "t", "e", "d", "D", "a", "t", "e", ",", "T", "y", "p", "e", ",", "A", "m", "o", "u", "n", "t", ",">>
    \o <<"C", "u", "r", "r", "e", "n", "c", "y", ",", "D", "e", "s", "c", "r", "i", "p", "t", "i", "o", "n", ",">>
    \o <<"A", "c", "c", "o", "u", "n", "t", ",", "C", "o", "u", "n", "t", "e", "r", "p", "a", "r", "t", "y", ",", "C", "a", "t", "e", "g", "o", "r", "y">>
S_AccountKey == <<"A", "c", "c", "o", "u", "n", "t", ":", " ">>
S_IdKey == <<"I", "D", ":", " ">>
S_DateKey == <<"D", "a", "t", "e", ":", " ">>
S_ExecutedDateKey == <<"E", "x", "e", "c", "u", "t", "e", "d", "D", "a", "t", "e", ":", " ">>
S_TypeKey == <<"T", "y", "p", "e", ":", " ">>
S_AmountKey == <<"A", "m", "o", "u", "n", "t", ":", " ">>
S_DescriptionKey == <<"D", "e", "s", "c", "r", "i", "p", "t", "i", "o", "n", ":", " ">>
S_CounterpartyKey == <<"C", "o", "u", "n", "t", "e", "r", "p", "a", "r", "t", "y", ":", " ">>
S_CategoryKey == <<"C", "a", "t", "e", "g", "o", "r", "y", ":", " ">>
S_Separator == <<"-", "-", "-">>

\* TransactionKind's Display (strum::Display): the variant's name
KindToString(kind) == IF kind = Credit THEN S_Credit ELSE S_Debit

\* TransactionKind::from_str (strum::EnumString): the exact variant name
KindFromStr(s) ==
  IF s = S_Credit THEN Ok(Credit)
  ELSE IF s = S_Debit THEN Ok(Debit)
  ELSE [ok |-> FALSE, e |-> "Matching variant not found"]

(***************************************************************************)
(* CSV codec (formats/csv.rs)                                              *)
(***************************************************************************)
\* str::replace('"', "\"\""): every double quote doubled
RECURSIVE DoubleQuotes(_)
DoubleQuotes(s) ==
  IF s = <<>> THEN <<>>
  ELSE (IF Head(s) = Q THEN <<Q, Q>> ELSE <<Head(s)>>) \o DoubleQuotes(Tail(s))

\* escape_csv_field
escape_csv_field(field) ==
  IF Contains(field, COMMA) \/ Contains(field, Q) \/ Contains(field, NL)
  THEN <<Q>> \o DoubleQuotes(field) \o <<Q>>
  ELSE field

\* unescape_csv_field
unescape_csv_field(field) ==
  LET trimmed == Trim(field)
  IN IF Len(trimmed) >= 2 /\ trimmed[1] = Q /\ trimmed[Len(trimmed)] = Q
     THEN SubSeq(trimmed, 2, Len(trimmed) - 1)
     ELSE trimmed

\* one iteration of the character loop of parse_csv_fields at line[i]; `skip`
\* is set when the iteration before has consumed this character as the
\* second quote of a doubled quote (chars.next())
parse_csv_fields_step(st, line, i) ==
  IF st.skip THEN [st EXCEPT !.skip = FALSE]
  ELSE IF line[i] = Q
       THEN IF st.in_quotes
            THEN IF i < Len(line) /\ line[i + 1] = Q
                 THEN [st EXCEPT !.current_field = Append(@, Q), !.skip = TRUE]
                 ELSE [st EXCEPT !.in_quotes = FALSE]
            ELSE [st EXCEPT !.in_quotes = TRUE]
       ELSE IF line[i] = COMMA /\ ~st.in_quotes
            THEN [st EXCEPT !.fields = Append(@, st.current_field), !.current_field = <<>>]
            ELSE [st EXCEPT !.current_field = Append(@, line[i])]

\* the iterations lo..hi of that loop, in order; the range is split in
\* halves, and the first half computed before the second is entered (the
\* test on `left`), to keep TLC's evaluation shallow
RECURSIVE parse_csv_fields_loop(_, _, _, _)
parse_csv_fields_loop(st, line, lo, hi) ==
  IF lo > hi THEN st
  ELSE IF lo = hi THEN parse_csv_fields_step(st, line, lo)
  ELSE LET mid == (lo + hi) \div 2
           left == parse_csv_fields_loop(st, line, lo, mid)
       IN IF left.skip \in BOOLEAN THEN parse_csv_fields_loop(left, line, mid + 1, hi) ELSE left

\* parse_csv_fields
parse_csv_fields(line) ==
  LET st == parse_csv_fields_loop(
              [in_quotes |-> FALSE, skip |-> FALSE, current_field |-> <<>>, fields |-> <<>>],
              line, 1, Len(line))
  IN Append(st.fields, st.current_field)

\* the optional columns 8..10 of parse_csv_line: absent or empty is None
csv_optional_field(fields, n) ==
  IF Len(fields) > n - 1
  THEN LET val == Trim(unescape_csv_field(fields[n]))
       IN IF val = <<>> THEN None ELSE Some(val)
  ELSE None

\* parse_csv_line
parse_csv_line(line, line_num) ==
  LET fields == parse_csv_fields(line)
      posted_at == ParseDate(Trim(fields[2]))
      executed_at == ParseDateTime(Trim(fields[3]))
      kind == KindFromStr(Trim(fields[4]))
      amount_value == DecimalFromStr(Trim(fields[5]))
  IN IF Len(fields) < 7
     THEN Err(ParseError("CSV", "insufficient fields (expected at least 7)", line_num))
     ELSE IF ~posted_at.ok
     THEN Err(ParseError("CSV", "invalid posted date", line_num))
     ELSE IF Trim(fields[3]) # <<>> /\ ~executed_at.ok
     THEN Err(ParseError("CSV", "invalid executed date", line_num))
     ELSE IF ~kind.ok
     THEN Err(ParseError("CSV", "invalid transaction type", line_num))
     ELSE IF ~amount_value.ok
     THEN Err(ParseError("CSV", "invalid amount", line_num))
     ELSE Ok(Transaction(
            Trim(unescape_csv_field(fields[1])),
            posted_at.v,
            IF Trim(fields[3]) = <<>> THEN None ELSE Some(executed_at.v),
            kind.v,
            Money(amount_value.v, Trim(unescape_csv_field(fields[6]))),
            Trim(unescape_csv_field(fields[7])),
            csv_optional_field(fields, 8),
            csv_optional_field(fields, 9),
            csv_optional_field(fields, 10)))

\* a faulty variant of parse_csv_record_step: only an empty line is skipped, a
\* line of white space is parsed as a record
parse_csv_record_step_EmptyOnly(st, lines, i) ==
  IF ~st.ok THEN st
  ELSE IF lines[i] = <<>> THEN st
  ELSE LET transaction == parse_csv_line(lines[i], i)
       IN IF transaction.ok THEN Ok(Append(st.v, transaction.v)) ELSE transaction

\* a faulty variant of parse_csv_record_step: errors carry the index
\* enumerate() gives the line, not the line's number in the input
parse_csv_record_step_LoopIndex(st, lines, i) ==
  IF ~st.ok THEN st
  ELSE IF Trim(lines[i]) = <<>> THEN st
  ELSE LET transaction == parse_csv_line(lines[i], i - 2)
       IN IF transaction.ok THEN Ok(Append(st.v, transaction.v)) ELSE transaction

\* one iteration of the record loop of parse_csv on lines[i], physical line i
\* of the input (the header is line 1, so enumerate()'s line_num + 2 is i);
\* after an error the loop has ended
parse_csv_record_step(st, lines, i) ==
  IF ~st.ok THEN st
  ELSE IF Trim(lines[i]) = <<>> THEN st
  ELSE LET transaction == parse_csv_line(lines[i], i)
       IN IF transaction.ok THEN Ok(Append(st.v, transaction.v)) ELSE transaction

\* the iterations lo..hi of that loop, in order, ended by the first error
RECURSIVE parse_csv_records(_, _, _, _)
parse_csv_records(st, lines, lo, hi) ==
  IF lo > hi THEN st
  ELSE IF lo = hi THEN parse_csv_record_step(st, lines, lo)
  ELSE LET mid == (lo + hi) \div 2
           left == parse_csv_records(st, lines, lo, mid)
       IN IF left.ok THEN parse_csv_records(left, lines, mid + 1, hi) ELSE left

\* a faulty variant of parse_csv: the first line is skipped without being checked
parse_csv_HeaderUnchecked(input) ==
  LET lines == Lines(input)
      transactions == parse_csv_records(Ok(<<>>), lines, 2, Len(lines))
  IN IF lines = <<>> THEN Err(ParseError("CSV", "empty file", 0))
     ELSE IF transactions.ok THEN Ok(TransactionBatch(None, transactions.v))
     ELSE transactions

\* parse_csv
parse_csv(input) ==
  LET lines == Lines(input)
  IN IF lines = <<>> THEN Err(ParseError("CSV", "empty file", 0))
     ELSE IF ~StartsWith(lines[1], S_TransactionId)
          THEN Err(ParseError("CSV", "invalid header", 0))
          ELSE LET transactions == parse_csv_records(Ok(<<>>), lines, 2, Len(lines))
               IN IF transactions.ok THEN Ok(TransactionBatch(None, transactions.v))
                  ELSE transactions

\* one record line of write_csv
write_csv_record(transaction) ==
  escape_csv_field(transaction.id) \o <<COMMA>>
    \o FormatDate(transaction.posted_at) \o <<COMMA>>
    \o (IF IsSome(transaction.executed_at) THEN FormatDateTime(transaction.executed_at.some) ELSE <<>>)
    \o <<COMMA>>
    \o KindToString(transaction.kind) \o <<COMMA>>
    \o DecimalToString(transaction.amount.amount) \o <<COMMA>>
    \o escape_csv_field(transaction.amount.currency) \o <<COMMA>>
    \o escape_csv_field(transaction.description) \o <<COMMA>>
    \o escape_csv_field(IF IsSome(transaction.account) THEN transaction.account.some ELSE <<>>)
    \o <<COMMA>>
    \o escape_csv_field(IF IsSome(transaction.counterparty) THEN transaction.counterparty.some ELSE <<>>)
    \o <<COMMA>>
    \o escape_csv_field(IF IsSome(transaction.category) THEN transaction.category.some ELSE <<>>)
    \o <<NL>>

\* write_csv
write_csv(b) ==
  S_CsvHeader \o <<NL>>
    \o Concat([i \in 1..Len(b.transactions) |-> write_csv_record(b.transactions[i])])

(***************************************************************************)
(* Text codec (formats/text.rs)                                            *)
(***************************************************************************)
\* a faulty variant of new_text_transaction: the kind starts as Credit
new_text_transaction_CreditDefault(id) ==
  Transaction(id, DEFAULT_DATE, None, Credit, Money(DecimalZero, <<>>), <<>>, None, None, None)

\* the transaction an `ID:` line starts
new_text_transaction(id) ==
  Transaction(id, DEFAULT_DATE, None, Debit, Money(DecimalZero, <<>>), <<>>, None, None, None)

\* current_transaction.take() followed by transactions.push(tx)
text_flush(st) ==
  IF IsSome(st.current_transaction)
  THEN [current_transaction |-> None,
        transactions |-> Append(st.transactions, st.current_transaction.some)]
  ELSE st

\* a faulty variant of text_field_line: errors carry the index enumerate()
\* gives the line, not the line's number in the input
text_field_line_LoopIndex(tx, trimmed, line_num) ==
  IF StartsWith(trimmed, S_DateKey)
  THEN LET d == ParseDate(StripPrefix(trimmed, S_DateKey).some)
       IN IF d.ok THEN Ok([tx EXCEPT !.posted_at = d.v])
          ELSE Err(ParseError("Text", "invalid date", line_num - 2))
  ELSE IF StartsWith(trimmed, S_ExecutedDateKey)
  THEN LET d == ParseDateTime(StripPrefix(trimmed, S_ExecutedDateKey).some)
       IN IF d.ok THEN Ok([tx EXCEPT !.executed_at = Some(d.v)])
          ELSE Err(ParseError("Text", "invalid executed date", line_num - 2))
  ELSE IF StartsWith(trimmed, S_TypeKey)
  THEN LET kind_str == StripPrefix(trimmed, S_TypeKey).some
       IN IF kind_str = S_Credit THEN Ok([tx EXCEPT !.kind = Credit])
          ELSE IF kind_str = S_Debit THEN Ok([tx EXCEPT !.kind = Debit])
          ELSE Err(ParseError("Text", "invalid type", line_num - 2))
  ELSE IF StartsWith(trimmed, S_AmountKey)
  THEN LET parts == SplitWhitespace(StripPrefix(trimmed, S_AmountKey).some)
           amount == DecimalFromStr(parts[1])
       IN IF Len(parts) # 2 THEN Err(ParseError("Text", "invalid amount format", line_num - 2))
          ELSE IF ~amount.ok THEN Err(ParseError("Text", "invalid amount", line_num - 2))
          ELSE Ok([tx EXCEPT !.amount = Money(amount.v, parts[2])])
  ELSE IF StartsWith(trimmed, S_DescriptionKey)
  THEN Ok([tx EXCEPT !.description = StripPrefix(trimmed, S_DescriptionKey).some])
  ELSE IF StartsWith(trimmed, S_AccountKey)
  THEN Ok([tx EXCEPT !.account = Some(StripPrefix(trimmed, S_AccountKey).some)])
  ELSE IF StartsWith(trimmed, S_CounterpartyKey)
  THEN Ok([tx EXCEPT !.counterparty = Some(StripPrefix(trimmed, S_CounterpartyKey).some)])
  ELSE IF StartsWith(trimmed, S_CategoryKey)
  THEN Ok([tx EXCEPT !.category = Some(StripPrefix(trimmed, S_CategoryKey).some)])
  ELSE Ok(tx)

\* a `Key: value` line applied to the transaction being built
text_field_line(tx, trimmed, line_num) ==
  IF StartsWith(trimmed, S_DateKey)
  THEN LET d == ParseDate(StripPrefix(trimmed, S_DateKey).some)
       IN IF d.ok THEN Ok([tx EXCEPT !.posted_at = d.v])
          ELSE Err(ParseError("Text", "invalid date", line_num))
  ELSE IF StartsWith(trimmed, S_ExecutedDateKey)
  THEN LET d == ParseDateTime(StripPrefix(trimmed, S_ExecutedDateKey).some)
       IN IF d.ok THEN Ok([tx EXCEPT !.executed_at = Some(d.v)])
          ELSE Err(ParseError("Text", "invalid executed date", line_num))
  ELSE IF StartsWith(trimmed, S_TypeKey)
  THEN LET kind_str == StripPrefix(trimmed, S_TypeKey).some
       IN IF kind_str = S_Credit THEN Ok([tx EXCEPT !.kind = Credit])
          ELSE IF kind_str = S_Debit THEN Ok([tx EXCEPT !.kind = Debit])
          ELSE Err(ParseError("Text", "invalid type", line_num))
  ELSE IF StartsWith(trimmed, S_AmountKey)
  THEN LET parts == SplitWhitespace(StripPrefix(trimmed, S_AmountKey).some)
           amount == DecimalFromStr(parts[1])
       IN IF Len(parts) # 2 THEN Err(ParseError("Text", "invalid amount format", line_num))
          ELSE IF ~amount.ok THEN Err(ParseError("Text", "invalid amount", line_num))
          ELSE Ok([tx EXCEPT !.amount = Money(amount.v, parts[2])])
  ELSE IF StartsWith(trimmed, S_DescriptionKey)
  THEN Ok([tx EXCEPT !.description = StripPrefix(trimmed, S_DescriptionKey).some])
  ELSE IF StartsWith(trimmed, S_AccountKey)
  THEN Ok([tx EXCEPT !.account = Some(StripPrefix(trimmed, S_AccountKey).some)])
  ELSE IF StartsWith(trimmed, S_CounterpartyKey)
  THEN Ok([tx EXCEPT !.counterparty = Some(StripPrefix(trimmed, S_CounterpartyKey).some)])
  ELSE IF StartsWith(trimmed, S_CategoryKey)
  THEN Ok([tx EXCEPT !.category = Some(StripPrefix(trimmed, S_CategoryKey).some)])
  ELSE Ok(tx)

\* a faulty variant of text_line_step: a field line read while no transaction
\* is being built is still validated
text_line_step_ValidatesOutside(st, lines, line_num) ==
  LET trimmed == Trim(lines[line_num])
  IN IF ~st.ok THEN st
     ELSE IF trimmed = <<>> THEN Ok(text_flush(st.v))
     ELSE IF trimmed = S_Separator THEN Ok(text_flush(st.v))
     ELSE IF StartsWith(trimmed, S_IdKey)
     THEN Ok([current_transaction |-> Some(new_text_transaction(StripPrefix(trimmed, S_IdKey).some)),
              transactions |-> text_flush(st.v).transactions])
     ELSE IF IsSome(st.v.current_transaction)
     THEN LET tx == text_field_line(st.v.current_transaction.some, trimmed, line_num)
          IN IF tx.ok THEN Ok([st.v EXCEPT !.current_transaction = Some(tx.v)]) ELSE tx
     ELSE LET tx == text_field_line(new_text_transaction(<<>>), trimmed, line_num)
          IN IF tx.ok THEN st ELSE tx

\* a faulty variant of text_line_step: an `ID:` line replaces the transaction
\* being built without pushing it
text_line_step_IdReplaces(st, lines, line_num) ==
  LET trimmed == Trim(lines[line_num])
  IN IF ~st.ok THEN st
     ELSE IF trimmed = <<>> THEN Ok(text_flush(st.v))
     ELSE IF trimmed = S_Separator THEN Ok(text_flush(st.v))
     ELSE IF StartsWith(trimmed, S_IdKey)
     THEN Ok([current_transaction |-> Some(new_text_transaction(StripPrefix(trimmed, S_IdKey).some)),
              transactions |-> st.v.transactions])
     ELSE IF IsSome(st.v.current_transaction)
     THEN LET tx == text_field_line(st.v.current_transaction.some, trimmed, line_num)
          IN IF tx.ok THEN Ok([st.v EXCEPT !.current_transaction = Some(tx.v)]) ELSE tx
     ELSE st

\* a faulty variant of text_line_step: a `---` line is not a delimiter
text_line_step_DashesIgnored(st, lines, line_num) ==
  LET trimmed == Trim(lines[line_num])
  IN IF ~st.ok THEN st
     ELSE IF trimmed = <<>> THEN Ok(text_flush(st.v))
     ELSE IF StartsWith(trimmed, S_IdKey)
     THEN Ok([current_transaction |-> Some(new_text_transaction(StripPrefix(trimmed, S_IdKey).some)),
              transactions |-> text_flush(st.v).transactions])
     ELSE IF IsSome(st.v.current_transaction)
     THEN LET tx == text_field_line(st.v.current_transaction.some, trimmed, line_num)
          IN IF tx.ok THEN Ok([st.v EXCEPT !.current_transaction = Some(tx.v)]) ELSE tx
     ELSE st

\* one iteration of the line loop of parse_text on lines[line_num], physical
\* line line_num of the input (the first line is consumed before the loop, so
\* enumerate()'s line_num + 2 is this number): the new loop state, or the
\* error that has ended the decode
text_line_step(st, lines, line_num) ==
  LET trimmed == Trim(lines[line_num])
  IN IF ~st.ok THEN st
     ELSE IF trimmed = <<>> THEN Ok(text_flush(st.v))
     ELSE IF trimmed = S_Separator THEN Ok(text_flush(st.v))
     ELSE IF StartsWith(trimmed, S_IdKey)
     THEN Ok([current_transaction |-> Some(new_text_transaction(StripPrefix(trimmed, S_IdKey).some)),
              transactions |-> text_flush(st.v).transactions])
     ELSE IF IsSome(st.v.current_transaction)
     THEN LET tx == text_field_line(st.v.current_transaction.some, trimmed, line_num)
          IN IF tx.ok THEN Ok([st.v EXCEPT !.current_transaction = Some(tx.v)]) ELSE tx
     ELSE st

\* the iterations lo..hi of that loop, in order, ended by the first error
RECURSIVE parse_text_lines(_, _, _, _)
parse_text_lines(st, lines, lo, hi) ==
  IF lo > hi THEN st
  ELSE IF lo = hi THEN text_line_step(st, lines, lo)
  ELSE LET mid == (lo + hi) \div 2
           left == parse_text_lines(st, lines, lo, mid)
       IN IF left.ok THEN parse_text_lines(left, lines, mid + 1, hi) ELSE left

\* a faulty variant of text_header_account: the value is taken untrimmed
text_header_account_Untrimmed(header) ==
  IF StartsWith(header, S_AccountKey)
  THEN Some(StripPrefix(header, S_AccountKey).some)
  ELSE None

\* the first line of parse_text: it is always consumed; `Account: <value>`
\* sets account_id
text_header_account(header) ==
  IF StartsWith(header, S_AccountKey)
  THEN Some(Trim(StripPrefix(header, S_AccountKey).some))
  ELSE None

\* parse_text
parse_text(input) ==
  LET lines == Lines(input)
      st == parse_text_lines(Ok([current_transaction |-> None, transactions |-> <<>>]),
                             lines, 2, Len(lines))
  IN IF lines = <<>> THEN Err(ParseError("Text", "empty file", 0))
     ELSE IF st.ok
          THEN Ok(TransactionBatch(text_header_account(lines[1]), text_flush(st.v).transactions))
          ELSE st

\* a faulty variant of write_text_transaction: the `---` line is written after
\* every transaction, the last one included
write_text_transaction_TrailingSeparator(tx, i) ==
  S_IdKey \o tx.id \o <<NL>>
    \o S_DateKey \o FormatDate(tx.posted_at) \o <<NL>>
    \o (IF IsSome(tx.executed_at)
        THEN S_ExecutedDateKey \o FormatDateTime(tx.executed_at.some) \o <<NL>> ELSE <<>>)
    \o S_TypeKey \o KindToString(tx.kind) \o <<NL>>
    \o S_AmountKey \o DecimalToString(tx.amount.amount) \o <<SP>> \o tx.amount.currency \o <<NL>>
    \o S_DescriptionKey \o tx.description \o <<NL>>
    \o (IF IsSome(tx.account) THEN S_AccountKey \o tx.account.some \o <<NL>> ELSE <<>>)
    \o (IF IsSome(tx.counterparty) THEN S_CounterpartyKey \o tx.counterparty.some \o <<NL>> ELSE <<>>)
    \o (IF IsSome(tx.category) THEN S_CategoryKey \o tx.category.some \o <<NL>> ELSE <<>>)
    \o S_Separator \o <<NL>>

\* the lines write_text emits for transaction number i (from 1) of the batch
write_text_transaction(tx, i) ==
  (IF i > 1 THEN S_Separator \o <<NL>> ELSE <<>>)
    \o S_IdKey \o tx.id \o <<NL>>
    \o S_DateKey \o FormatDate(tx.posted_at) \o <<NL>>
    \o (IF IsSome(tx.executed_at)
        THEN S_ExecutedDateKey \o FormatDateTime(tx.executed_at.some) \o <<NL>> ELSE <<>>)
    \o S_TypeKey \o KindToString(tx.kind) \o <<NL>>
    \o S_AmountKey \o DecimalToString(tx.amount.amount) \o <<SP>> \o tx.amount.currency \o <<NL>>
    \o S_DescriptionKey \o tx.description \o <<NL>>
    \o (IF IsSome(tx.account) THEN S_AccountKey \o tx.account.some \o <<NL>> ELSE <<>>)
    \o (IF IsSome(tx.counterparty) THEN S_CounterpartyKey \o tx.counterparty.some \o <<NL>> ELSE <<>>)
    \o (IF IsSome(tx.category) THEN S_CategoryKey \o tx.category.some \o <<NL>> ELSE <<>>)

\* write_text
write_text(b) ==
  (IF IsSome(b.account_id) THEN S_AccountKey \o b.account_id.some \o <<NL>> \o <<NL>> ELSE <<>>)
    \o Concat([i \in 1..Len(b.transactions) |-> write_text_transaction(b.transactions[i], i)])

(***************************************************************************)
(* Binary codec (formats/binary.rs)                                        *)
(*                                                                         *)
(* A u32 or i64 is held as the integer its bytes denote in two's           *)
(* complement, so a u32 of 2^31 or more is held as that value minus 2^32,  *)
(* which is also what `as i32` makes of it.  Strings are ASCII, one byte   *)
(* per character; a byte of 128 or more inside a string is not UTF-8.      *)
(***************************************************************************)
MAGIC_NUMBER == 1498432070
VERSION == 1

\* the printable ASCII characters, byte 32 first (byte 96 is held by a name)
AsciiPrintable ==
  <<" ", "!", "\"", "#", "$", "%", "&", "'", "(", ")", "*", "+", ",", "-", ".", "/">>
    \o <<"0", "1", "2", "3", "4", "5", "6", "7", "8", "9", ":", ";", "<", "=", ">", "?">>
    \o <<"@", "A", "B", "C", "D", "E", "F", "G", "H", "I", "J", "K", "L", "M", "N", "O">>
    \o <<"P", "Q", "R", "S", "T", "U", "V", "W", "X", "Y", "Z", "[", "\\", "]", "^", "_">>
    \o <<"<grave>", "a", "b", "c", "d", "e", "f", "g", "h", "i", "j", "k", "l", "m", "n", "o">>
    \o <<"p", "q", "r", "s", "t", "u", "v", "w", "x", "y", "z", "{", "|", "}", "~">>

\* str::as_bytes of one character
CharByte(c) ==
  IF c = NL THEN 10 ELSE IF c = TAB THEN 9 ELSE IF c = CR THEN 13
  ELSE 31 + (CHOOSE i \in 1..Len(AsciiPrintable) : AsciiPrintable[i] = c)

\* the character of a byte below 128
ByteChar(b) ==
  IF b = 10 THEN NL ELSE IF b = 9 THEN TAB ELSE IF b = 13 THEN CR ELSE AsciiPrintable[b - 31]

StrBytes(s) == [i \in 1..Len(s) |-> CharByte(s[i])]

\* to_le_bytes: the n little-endian bytes of v in two's complement
RECURSIVE NatLeBytes(_, _)
NatLeBytes(v, n) == IF n = 0 THEN <<>> ELSE <<v % 256>> \o NatLeBytes(v \div 256, n - 1)
LeBytes(v, n) ==
  IF v >= 0 THEN NatLeBytes(v, n)
  ELSE LET w == NatLeBytes((-v) - 1, n) IN [i \in 1..n |-> 255 - w[i]]

\* from_le_bytes, for bytes that denote a 32-bit value extended to their width
RECURSIVE NatFromLe(_)
NatFromLe(bs) == IF bs = <<>> THEN 0 ELSE Head(bs) + 256 * NatFromLe(Tail(bs))
FromLeBytes(bs) ==
  IF bs[Len(bs)] < 128 THEN NatFromLe(bs)
  ELSE -(NatFromLe([i \in 1..Len(bs) |-> 255 - bs[i]]) + 1)

\* write_u8, write_u32, write_i64
write_u8(value) == <<value>>
write_u32(value) == LeBytes(value, 4)
write_i64(value) == LeBytes(value, 8)

\* write_string
write_string(s) == write_u32(Len(s)) \o StrBytes(s)

\* a faulty variant of write_optional_string: an absent string written as a present
\* empty one
write_optional_string_AlwaysPresent(s) ==
  write_u8(1) \o write_string(IF IsSome(s) THEN s.some ELSE <<>>)

\* write_optional_string
write_optional_string(s) ==
  IF IsSome(s) THEN write_u8(1) \o write_string(s.some) ELSE write_u8(0)

\* write_transaction
write_transaction(tx) ==
  write_string(tx.id)
    \o write_u32(NumDaysFromCe(tx.posted_at))
    \o (IF IsSome(tx.executed_at)
        THEN write_u8(1) \o write_i64(Timestamp(tx.executed_at.some))
        ELSE write_u8(0))
    \o write_u8(IF tx.kind = Debit THEN 0 ELSE 1)
    \o write_string(DecimalToString(tx.amount.amount))
    \o write_string(tx.amount.currency)
    \o write_string(tx.description)
    \o write_optional_string(tx.account)
    \o write_optional_string(tx.counterparty)
    \o write_optional_string(tx.category)

\* write_binary
write_binary(b) ==
  write_u32(MAGIC_NUMBER) \o write_u8(VERSION)
    \o write_optional_string(b.account_id)
    \o write_u32(Len(b.transactions))
    \o Concat([i \in 1..Len(b.transactions) |-> write_transaction(b.transactions[i])])

\* A read on the input `bytes` from position pos (from 1) gives
\* [ok |-> TRUE, v |-> value, pos |-> next position] or Err(e).
Read(v, pos) == [ok |-> TRUE, v |-> v, pos |-> pos]

\* Read::read_exact of n bytes
read_exact(bytes, pos, n) ==
  IF n < 0 \/ pos + n - 1 > Len(bytes)
  THEN Err(IoError("failed to fill whole buffer"))
  ELSE Read(SubSeq(bytes, pos, pos + n - 1), pos + n)

\* read_u8
read_u8(bytes, pos) ==
  LET buf == read_exact(bytes, pos, 1)
  IN IF buf.ok THEN Read(buf.v[1], buf.pos) ELSE buf

\* read_u32
read_u32(bytes, pos) ==
  LET buf == read_exact(bytes, pos, 4)
  IN IF buf.ok THEN Read(FromLeBytes(buf.v), buf.pos) ELSE buf

\* read_i64
read_i64(bytes, pos) ==
  LET buf == read_exact(bytes, pos, 8)
  IN IF buf.ok THEN Read(FromLeBytes(buf.v), buf.pos) ELSE buf

\* a faulty variant of read_string: bytes that are no UTF-8 are replaced by a
\* question mark, as String::from_utf8_lossy would
read_string_Lossy(bytes, pos) ==
  LET len == read_u32(bytes, pos)
      buf == read_exact(bytes, len.pos, len.v)
  IN IF ~len.ok THEN len
     ELSE IF ~buf.ok THEN buf
     ELSE Read([i \in 1..Len(buf.v) |-> IF buf.v[i] >= 128 THEN "?" ELSE ByteChar(buf.v[i])],
               buf.pos)

\* read_string: a length of 2^31 or more (held negative) exceeds any input
read_string(bytes, pos) ==
  LET len == read_u32(bytes, pos)
      buf == read_exact(bytes, len.pos, len.v)
  IN IF ~len.ok THEN len
     ELSE IF ~buf.ok THEN buf
     ELSE IF \E i \in 1..Len(buf.v) : buf.v[i] >= 128
          THEN Err(ParseError("Binary", "invalid UTF-8", 0))
          ELSE Read([i \in 1..Len(buf.v) |-> ByteChar(buf.v[i])], buf.pos)

\* a faulty variant of read_optional_string: only the flag 1 means present
read_optional_string_Canonical(bytes, pos) ==
  LET has_value == read_u8(bytes, pos)
      value == read_string(bytes, has_value.pos)
  IN IF ~has_value.ok THEN has_value
     ELSE IF has_value.v = 1
          THEN (IF value.ok THEN Read(Some(value.v), value.pos) ELSE value)
          ELSE IF has_value.v = 0 THEN Read(None, has_value.pos)
          ELSE Err(ParseError("Binary", "invalid presence flag", 0))

\* read_optional_string
read_optional_string(bytes, pos) ==
  LET has_value == read_u8(bytes, pos)
      value == read_string(bytes, has_value.pos)
  IN IF ~has_value.ok THEN has_value
     ELSE IF has_value.v # 0
          THEN (IF value.ok THEN Read(Some(value.v), value.pos) ELSE value)
          ELSE Read(None, has_value.pos)

\* NaiveDate::from_num_days_from_ce_opt: None outside NaiveDate::MIN..MAX
DateFromDaysCeOpt(n) ==
  IF n < NumDaysFromCe(Date(-262143, 1, 1)) \/ n > NumDaysFromCe(Date(262142, 12, 31))
  THEN None
  ELSE Some(DateFromDaysCe(n))

\* a faulty variant of read_executed_at: the timestamp is read and then dropped
read_executed_at_Dropped(bytes, pos) ==
  LET has_executed == read_u8(bytes, pos)
      timestamp == read_i64(bytes, has_executed.pos)
  IN IF ~has_executed.ok THEN has_executed
     ELSE IF has_executed.v # 0
          THEN (IF timestamp.ok THEN Read(None, timestamp.pos) ELSE timestamp)
          ELSE Read(None, has_executed.pos)

\* the executed_at part of read_transaction
read_executed_at(bytes, pos) ==
  LET has_executed == read_u8(bytes, pos)
      timestamp == read_i64(bytes, has_executed.pos)
  IN IF ~has_executed.ok THEN has_executed
     ELSE IF has_executed.v # 0
          THEN (IF timestamp.ok THEN Read(Some(FromTimestamp(timestamp.v)), timestamp.pos)
                ELSE timestamp)
          ELSE Read(None, has_executed.pos)

\* read_transaction. Try is the `?` operator: the error of r, or the rest of
\* the function applied to r
read_transaction(bytes, pos) ==
  LET Try(r, rest(_)) == IF r.ok THEN rest(r) ELSE r
  IN
  Try(read_string(bytes, pos), LAMBDA id :
  Try(read_u32(bytes, id.pos), LAMBDA posted_days :
  IF ~IsSome(DateFromDaysCeOpt(posted_days.v))
  THEN Err(ParseError("Binary", "invalid posted date", 0))
  ELSE
  Try(read_executed_at(bytes, posted_days.pos), LAMBDA executed_at :
  Try(read_u8(bytes, executed_at.pos), LAMBDA kind_byte :
  IF kind_byte.v \notin {0, 1} THEN Err(ParseError("Binary", "invalid kind", 0))
  ELSE
  Try(read_string(bytes, kind_byte.pos), LAMBDA amount_str :
  IF ~DecimalFromStr(amount_str.v).ok THEN Err(ParseError("Binary", "invalid amount", 0))
  ELSE
  Try(read_string(bytes, amount_str.pos), LAMBDA currency :
  Try(read_string(bytes, currency.pos), LAMBDA description :
  Try(read_optional_string(bytes, description.pos), LAMBDA account :
  Try(read_optional_string(bytes, account.pos), LAMBDA counterparty :
  Try(read_optional_string(bytes, counterparty.pos), LAMBDA category :
  Read(Transaction(id.v, DateFromDaysCeOpt(posted_days.v).some, executed_at.v,
                   IF kind_byte.v = 0 THEN Debit ELSE Credit,
                   Money(DecimalFromStr(amount_str.v).v, currency.v), description.v,
                   account.v, counterparty.v, category.v),
       category.pos)))))))))))

\* the transaction loop of parse_binary, `left` transactions still to read
RECURSIVE read_transactions(_, _, _, _)
read_transactions(bytes, pos, left, transactions) ==
  IF left = 0 THEN Ok(transactions)
  ELSE LET transaction == read_transaction(bytes, pos)
       IN IF transaction.ok
          THEN read_transactions(bytes, transaction.pos, left - 1, Append(transactions, transaction.v))
          ELSE transaction

\* a faulty variant of parse_binary: the magic number and the version are
\* compared after the account and the transaction count have been read
parse_binary_LateCheck(bytes) ==
  LET Try(r, rest(_)) == IF r.ok THEN rest(r) ELSE r
  IN
  Try(read_u32(bytes, 1), LAMBDA magic :
  Try(read_u8(bytes, magic.pos), LAMBDA version :
  Try(read_optional_string(bytes, version.pos), LAMBDA account_id :
  Try(read_u32(bytes, account_id.pos), LAMBDA tx_count :
  IF magic.v # MAGIC_NUMBER THEN Err(ParseError("Binary", "invalid magic number", 0))
  ELSE IF version.v # VERSION THEN Err(ParseError("Binary", "unsupported version", 0))
  ELSE
  Try(read_transactions(bytes, tx_count.pos, tx_count.v, <<>>), LAMBDA transactions :
  Ok(TransactionBatch(account_id.v, transactions.v)))))))

\* parse_binary. Try is the `?` operator
parse_binary(bytes) ==
  LET Try(r, rest(_)) == IF r.ok THEN rest(r) ELSE r
  IN
  Try(read_u32(bytes, 1), LAMBDA magic :
  IF magic.v # MAGIC_NUMBER THEN Err(ParseError("Binary", "invalid magic number", 0))
  ELSE
  Try(read_u8(bytes, magic.pos), LAMBDA version :
  IF version.v # VERSION THEN Err(ParseError("Binary", "unsupported version", 0))
  ELSE
  Try(read_optional_string(bytes, version.pos), LAMBDA account_id :
  Try(read_u32(bytes, account_id.pos), LAMBDA tx_count :
  Try(read_transactions(bytes, tx_count.pos, tx_count.v, <<>>), LAMBDA transactions :
  Ok(TransactionBatch(account_id.v, transactions.v)))))))

(***************************************************************************)
(* Format dispatcher (formats/mod.rs, lib.rs)                              *)
(***************************************************************************)
Csv == "Csv"
Text == "Text"
Binary == "Binary"
Format == {Csv, Text, Binary}

\* parse: the decoder of the format
parse(input, format) ==
  IF format = Csv THEN parse_csv(input)
  ELSE IF format = Text THEN parse_text(input)
  ELSE parse_binary(input)

\* write: the encoder of the format
write(b, format) ==
  IF format = Csv THEN write_csv(b)
  ELSE IF format = Text THEN write_text(b)
  ELSE write_binary(b)

(***************************************************************************)
(* Inputs: the batches a caller holds and the files a caller supplies      *)
(***************************************************************************)
D_TX001 == Date(2024, 1, 15)
T_TX001 == DateTime(D_TX001, 10, 30, 0, 0)

\* the transaction of the TX001 scenario
TX001 ==
  Transaction(<<"T", "X", "0", "0", "1">>, D_TX001, Some(T_TX001), Credit,
              Money(Dec(FALSE, 100050, 2), <<"U", "S", "D">>), <<"S", "a", "l", "a", "r", "y", " ", "p", "a", "y", "m", "e", "n", "t">>,
              Some(<<"A", "C", "C", "1", "2", "3">>), Some(<<"E", "m", "p", "l", "o", "y", "e", "r", " ", "I", "n", "c">>), Some(<<"S", "a", "l", "a", "r", "y">>))

\* a second plain transaction, placed before the varied one in longer batches
TX002 ==
  Transaction(<<"T", "X", "0", "0", "2">>, Date(2024, 1, 16), None, Debit,
              Money(Dec(FALSE, 15050, 2), <<"U", "S", "D">>), <<"S", "t", "o", "r", "e">>,
              Some(<<"A", "C", "C", "1", "2", "3">>), None, Some(<<"F", "o", "o", "d">>))

\* string values: plain, empty, and with the characters the formats treat
\* specially (comma, double quote, newline, surrounding blanks)
StrPool ==
  { <<"a">>, <<>>, <<"a", ",", "b">>, <<"a", "\"", "b">>, <<"\"", "\"">>, <<"\"", "a", "\"">>, <<"a", "\n", "b">>, <<" ", "a">>, <<"a", " ">>, <<"a", " ", "b">> }

DatePool == { Date(1970, 1, 1), Date(2024, 2, 29), Date(1999, 12, 31) }

\* timestamps: before the Unix epoch, and with a fraction of a second
DateTimePool ==
  { DateTime(Date(1969, 12, 31), 23, 59, 59, 0),
    DateTime(Date(2024, 2, 29), 0, 0, 1, 0),
    DateTime(D_TX001, 10, 30, 0, 500000000) }

\* amounts 0, 0.00, 0.005, -2.5, 1000, 1000.5
AmountPool ==
  { Dec(FALSE, 0, 0), Dec(FALSE, 0, 2), Dec(FALSE, 5, 3), Dec(TRUE, 25, 1),
    Dec(FALSE, 1000, 0), Dec(FALSE, 10005, 1) }

\* TX001 and its variants in one field
Transactions ==
  {TX001}
    \cup {[TX001 EXCEPT !.id = s] : s \in StrPool}
    \cup {[TX001 EXCEPT !.amount.currency = s] : s \in StrPool}
    \cup {[TX001 EXCEPT !.description = s] : s \in StrPool}
    \cup {[TX001 EXCEPT !.account = o] : o \in {None} \cup {Some(s) : s \in StrPool}}
    \cup {[TX001 EXCEPT !.counterparty = o] : o \in {None} \cup {Some(s) : s \in StrPool}}
    \cup {[TX001 EXCEPT !.category = o] : o \in {None} \cup {Some(s) : s \in StrPool}}
    \cup {[TX001 EXCEPT !.posted_at = d] : d \in DatePool}
    \cup {[TX001 EXCEPT !.executed_at = o] : o \in {None} \cup {Some(t) : t \in DateTimePool}}
    \cup {[TX001 EXCEPT !.kind = Debit]}
    \cup {[TX001 EXCEPT !.amount.amount = a] : a \in AmountPool}

AccountIds == {None, Some(<<"A", "C", "C", "1", "2", "3">>)}

\* the batches: no transaction, or up to MaxTx of them, the last one varied
Batches ==
  {TransactionBatch(a, <<>>) : a \in AccountIds}
    \cup {TransactionBatch(a, [i \in 1..n |-> IF i = n THEN t ELSE TX002]) :
            a \in AccountIds, n \in 1..MaxTx, t \in Transactions}

\* record lines of CSV files
L_TX001 ==
  <<"T", "X", "0", "0", "1", ",", "2", "0", "2", "4", "-", "0", "1", "-", "1", "5", ",", "2", "0", "2", "4", "-", "0", "1", "-", "1", "5", " ", "1", "0", ":", "3", "0", ":", "0", "0", ",">>
    \o <<"C", "r", "e", "d", "i", "t", ",", "1", "0", "0", "0", ".", "5", "0", ",", "U", "S", "D", ",", "S", "a", "l", "a", "r", "y", " ", "p", "a", "y", "m", "e", "n", "t", ",">>
    \o <<"A", "C", "C", "1", "2", "3", ",", "E", "m", "p", "l", "o", "y", "e", "r", " ", "I", "n", "c", ",", "S", "a", "l", "a", "r", "y">>
\* a record of seven fields, the optional columns left out, and records that
\* are malformed: six fields, a posted date that is no date, an executed date
\* without a time, a type in lower case, an amount that is no number
L_Seven == <<"T", "X", "9", ",", "2", "0", "2", "4", "-", "0", "1", "-", "1", "5", ",", ",", "D", "e", "b", "i", "t", ",", "5", ".", "0", ",", "E", "U", "R", ",", "x">>
L_Short == <<"T", "X", "9", ",", "2", "0", "2", "4", "-", "0", "1", "-", "1", "5", ",", ",", "D", "e", "b", "i", "t", ",", "5", ".", "0", ",", "E", "U", "R">>
L_BadDate == <<"T", "X", "9", ",", "2", "0", "2", "4", "-", "1", "3", "-", "4", "5", ",", ",", "D", "e", "b", "i", "t", ",", "5", ".", "0", ",", "E", "U", "R", ",", "x">>
L_BadExec == <<"T", "X", "9", ",", "2", "0", "2", "4", "-", "0", "1", "-", "1", "5", ",", "2", "0", "2", "4", "-", "0", "1", "-", "1", "5", ",", "D", "e", "b", "i", "t", ",", "5", ".", "0", ",", "E", "U", "R", ",", "x">>
L_BadType == <<"T", "X", "9", ",", "2", "0", "2", "4", "-", "0", "1", "-", "1", "5", ",", ",", "c", "r", "e", "d", "i", "t", ",", "5", ".", "0", ",", "E", "U", "R", ",", "x">>
L_BadAmount == <<"T", "X", "9", ",", "2", "0", "2", "4", "-", "0", "1", "-", "1", "5", ",", ",", "D", "e", "b", "i", "t", ",", "a", "b", "c", ",", "E", "U", "R", ",", "x">>

\* first lines of CSV files: the writer's header, a header that only begins
\* with the token, other column names, a blank line, the token in another
\* case, indented or cut short, and a data record
CsvFirstLines ==
  { S_CsvHeader, <<"T", "r", "a", "n", "s", "a", "c", "t", "i", "o", "n", "I", "d", "X">>, <<"I", "d", ",", "D", "a", "t", "e", ",", "T", "y", "p", "e">>, <<>>, <<"t", "r", "a", "n", "s", "a", "c", "t", "i", "o", "n", "i", "d", ",", "P", "o", "s", "t", "e", "d", "D", "a", "t", "e">>,
    <<" ", "T", "r", "a", "n", "s", "a", "c", "t", "i", "o", "n", "I", "d", ",", "P", "o", "s", "t", "e", "d", "D", "a", "t", "e">>, <<"T", "r", "a", "n", "s", "a", "c", "t", "i", "o", "n", "I">>, L_TX001 }

CsvTails ==
  { <<>>, <<L_TX001>>, <<L_Seven, <<>>, L_TX001>>, <<L_TX001, L_BadDate>>,
    <<L_TX001, <<>>, L_Short>>, <<<<" ">>, L_BadExec, L_TX001>>, <<L_BadType>>,
    <<L_TX001, L_Seven, L_BadAmount, L_BadDate>>, <<<<" ">>, L_TX001, <<" ", " ">>, L_Seven, <<>>>> }

\* a file of these lines, each ended by a newline, or the last one not
FileOf(lines, final_newline) ==
  LET text == Concat([i \in 1..Len(lines) |-> lines[i] \o <<NL>>])
  IN IF final_newline \/ text = <<>> THEN text ELSE SubSeq(text, 1, Len(text) - 1)

CsvFiles ==
  {<<>>} \cup {FileOf(<<h>> \o t, nl) : h \in CsvFirstLines, t \in CsvTails, nl \in BOOLEAN}

\* the CSV file of the TX001 scenario
F_CsvTX001 == FileOf(<<S_CsvHeader, L_TX001>>, TRUE)

\* the lines of TX001 in the Text format
TextLinesTX001 ==
  << <<"I", "D", ":", " ", "T", "X", "0", "0", "1">>, <<"D", "a", "t", "e", ":", " ", "2", "0", "2", "4", "-", "0", "1", "-", "1", "5">>, <<"E", "x", "e", "c", "u", "t", "e", "d", "D", "a", "t", "e", ":", " ", "2", "0", "2", "4", "-", "0", "1", "-", "1", "5", " ", "1", "0", ":", "3", "0", ":", "0", "0">>, <<"T", "y", "p", "e", ":", " ", "C", "r", "e", "d", "i", "t">>,
     <<"A", "m", "o", "u", "n", "t", ":", " ", "1", "0", "0", "0", ".", "5", "0", " ", "U", "S", "D">>, <<"D", "e", "s", "c", "r", "i", "p", "t", "i", "o", "n", ":", " ", "S", "a", "l", "a", "r", "y", " ", "p", "a", "y", "m", "e", "n", "t">>, <<"A", "c", "c", "o", "u", "n", "t", ":", " ", "A", "C", "C", "1", "2", "3">>,
     <<"C", "o", "u", "n", "t", "e", "r", "p", "a", "r", "t", "y", ":", " ", "E", "m", "p", "l", "o", "y", "e", "r", " ", "I", "n", "c">>, <<"C", "a", "t", "e", "g", "o", "r", "y", ":", " ", "S", "a", "l", "a", "r", "y">> >>

\* TX001 as a Text file, under an `Account:` header
F_TextTX001 == FileOf(<<<<"A", "c", "c", "o", "u", "n", "t", ":", " ", "A", "C", "C", "1", "2", "3">>, <<>>>> \o TextLinesTX001, TRUE)

TextFiles == { F_TextTX001, FileOf(TextLinesTX001, TRUE) }

\* TX001 as a Binary file, byte by byte: magic, version, account_id "ACC123",
\* one transaction: id "TX001", day 738900, executed 1705314600, kind 1,
\* "1000.50", "USD", "Salary payment", "ACC123", "Employer Inc", "Salary"
F_BinaryTX001 ==
  <<70, 66, 80, 89, 1, 1, 6, 0, 0, 0, 65, 67, 67, 49, 50, 51, 1, 0, 0, 0>>
    \o <<5, 0, 0, 0, 84, 88, 48, 48, 49>>
    \o <<84, 70, 11, 0>>
    \o <<1, 40, 9, 165, 101, 0, 0, 0, 0>>
    \o <<1>>
    \o <<7, 0, 0, 0, 49, 48, 48, 48, 46, 53, 48>>
    \o <<3, 0, 0, 0, 85, 83, 68>>
    \o <<14, 0, 0, 0, 83, 97, 108, 97, 114, 121, 32, 112, 97, 121, 109, 101, 110, 116>>
    \o <<1, 6, 0, 0, 0, 65, 67, 67, 49, 50, 51>>
    \o <<1, 12, 0, 0, 0, 69, 109, 112, 108, 111, 121, 101, 114, 32, 73, 110, 99>>
    \o <<1, 6, 0, 0, 0, 83, 97, 108, 97, 114, 121>>

\* Binary inputs by their header: four bytes that are the magic number, the
\* magic number in big-endian order, the magic number with its last byte one
\* less, or zeros; a version byte; then the bytes of TX001 after its header,
\* nothing, or bytes that are no account and no transaction
BinaryMagics == { <<70, 66, 80, 89>>, <<89, 80, 70, 66>>, <<70, 66, 80, 88>>, <<0, 0, 0, 0>> }
BinaryVersions == { 0, 1, 2, 255 }
BinaryTails == { SubSeq(F_BinaryTX001, 6, Len(F_BinaryTX001)), <<>>, <<255, 255>>, <<1, 6, 0>> }

\* TX001 followed by a second copy of its transaction, the count set to 2
F_BinaryTwo == [F_BinaryTX001 EXCEPT ![17] = 2] \o SubSeq(F_BinaryTX001, 21, Len(F_BinaryTX001))

\* Binary inputs with one field spoilt. In F_BinaryTX001 byte 17 is the first
\* byte of the transaction count, 21..24 the length of the id, 25 its first
\* byte, 43 the kind, 109 the first byte of the length of the category, the
\* last field, and 11 the first byte of the account_id; in F_BinaryTwo byte
\* 141 is the kind of the second transaction
BinaryKindFiles ==
  { [F_BinaryTX001 EXCEPT ![43] = 2], [F_BinaryTX001 EXCEPT ![43] = 255],
    [F_BinaryTwo EXCEPT ![141] = 2] }
BinaryLengthFiles ==
  { [F_BinaryTX001 EXCEPT ![109] = 7], [F_BinaryTX001 EXCEPT ![21] = 200],
    [F_BinaryTX001 EXCEPT ![24] = 255], [F_BinaryTwo EXCEPT ![207] = 7] }
BinaryUtf8Files ==
  { [F_BinaryTX001 EXCEPT ![25] = 255], [F_BinaryTX001 EXCEPT ![11] = 200],
    [F_BinaryTwo EXCEPT ![211] = 255] }
BinaryCountFiles ==
  { [F_BinaryTX001 EXCEPT ![17] = 2], [F_BinaryTX001 EXCEPT ![18] = 1],
    SubSeq(F_BinaryTwo, 1, 200), [F_BinaryTwo EXCEPT ![17] = 3] }

\* the presence flags of F_BinaryTX001: of account_id, executed_at, account,
\* counterparty and category
FlagPositions == {6, 34, 80, 91, 108}

\* TX001 with one presence flag, or all of them, set to a non-zero value
\* other than 1
BinaryFlagFiles ==
  { [F_BinaryTX001 EXCEPT ![p] = v] : p \in FlagPositions, v \in {2, 255} }
    \cup { [i \in 1..Len(F_BinaryTX001) |->
              IF i \in FlagPositions THEN 2 ELSE F_BinaryTX001[i]] }

BinaryFiles ==
  {magic \o <<version>> \o tail :
     magic \in BinaryMagics, version \in BinaryVersions, tail \in BinaryTails}
    \cup { <<0, 0, 0, 0>>, <<70, 66, 80, 89>>, <<70, 66>> }
    \cup {F_BinaryTwo} \cup BinaryKindFiles \cup BinaryLengthFiles \cup BinaryUtf8Files
    \cup BinaryCountFiles \cup BinaryFlagFiles

\* the files a caller supplies, each with the format it is in
Files ==
  {<<f, Csv>> : f \in CsvFiles} \cup {<<f, Text>> : f \in TextFiles}
    \cup {<<f, Binary>> : f \in BinaryFiles}

(***************************************************************************)
(* The state machine: a caller writes the batch it holds, parses a stream, *)
(* or runs the converter on a stream.                                      *)
(***************************************************************************)
NoResult == [none |-> TRUE]
NoBatch == [none |-> TRUE]
\* no call of parse_text in progress, no run of the comparer
NoFrame == [pc |-> "none"]
NoRun == [pc |-> "none"]
NoArgs == [none |-> TRUE]

\* CSV and Text streams are character streams, Binary streams byte streams
Textual(format) == format \in {Csv, Text}
Readable(format, written) == Textual(format) = Textual(written)

Init ==
  /\ \/ /\ batch \in Batches
        /\ stream = <<>>
        /\ sfmt = "none"
        /\ pc = "start"
     \/ /\ batch = NoBatch
        /\ \E file \in Files : stream = file[1] /\ sfmt = file[2]
        /\ pc = "supplied"
  /\ prev = <<>>
  /\ pfmt = "none"
  /\ decoded = NoResult
  /\ result = NoResult
  /\ rfmt = "none"
  /\ frame = NoFrame
  /\ cmp = NoRun
  /\ args = NoArgs

\* lib.rs write: the batch encoded into the stream
Write(format) ==
  /\ pc = "start"
  /\ stream' = write(batch, format)
  /\ sfmt' = format
  /\ pc' = "written"
  /\ UNCHANGED <<batch, prev, pfmt, decoded, result, rfmt, frame, cmp, args>>

\* lib.rs parse: the stream decoded
Parse(format) ==
  /\ pc \in {"written", "supplied", "converted"}
  /\ Readable(format, sfmt)
  /\ result' = parse(stream, format)
  /\ rfmt' = format
  /\ pc' = "parsed"
  /\ UNCHANGED <<batch, stream, sfmt, prev, pfmt, decoded, frame, cmp, args>>

\* converter run: the input parsed in its format and, if that succeeds, the
\* batch written to the output in the output format
Run(output_fmt) ==
  /\ pc \in {"written", "supplied"}
  /\ decoded' = parse(stream, sfmt)
  /\ prev' = stream
  /\ pfmt' = sfmt
  /\ IF decoded'.ok
     THEN /\ stream' = write(decoded'.v, output_fmt)
          /\ sfmt' = output_fmt
          /\ pc' = "converted"
     ELSE /\ stream' = <<>>
          /\ sfmt' = "none"
          /\ pc' = "failed"
  /\ UNCHANGED <<batch, result, rfmt, frame, cmp, args>>

Next ==
  \/ \E format \in Format : Write(format)
  \/ \E format \in Format : Parse(format)
  \/ \E output_fmt \in Format : Run(output_fmt)

Spec == Init /\ [][Next]_vars

(***************************************************************************)
(* parse_text reading its input line by line: the header, then one         *)
(* iteration of the line loop per line, then the end of the input.         *)
(***************************************************************************)
\* first lines of Text inputs: an account header (its value padded or not, or
\* the line starting with a space),
\* an `ID:` line, an empty line
TextHeaders == { <<"A", "c", "c", "o", "u", "n", "t", ":", " ", "A", "C", "C", "1", "2", "3">>, <<"A", "c", "c", "o", "u", "n", "t", ":", " ", " ", "A", "C", "C", "7", " ">>, <<" ", "A", "c", "c", "o", "u", "n", "t", ":", " ", "A", "C", "C", "1">>, <<"I", "D", ":", " ", "T", "X", "0">>, <<>> }

\* lines of Text inputs after the first: `ID:` lines, delimiters, well-formed
\* and malformed field lines, a line with an unknown key
L_IdA == <<"I", "D", ":", " ", "A">>
L_IdB == <<" ", " ", "I", "D", ":", " ", "B">>
L_Blank == <<" ">>
L_Dashes == <<"-", "-", "-">>
L_Date == <<"D", "a", "t", "e", ":", " ", "2", "0", "2", "4", "-", "0", "2", "-", "2", "9">>
L_DateBad == <<"D", "a", "t", "e", ":", " ", "2", "0", "2", "4", "-", "1", "3", "-", "4", "5">>
L_Executed == <<"E", "x", "e", "c", "u", "t", "e", "d", "D", "a", "t", "e", ":", " ", "2", "0", "2", "4", "-", "0", "1", "-", "1", "5", " ", "1", "0", ":", "3", "0", ":", "0", "0">>
L_ExecutedBad == <<"E", "x", "e", "c", "u", "t", "e", "d", "D", "a", "t", "e", ":", " ", "2", "0", "2", "4", "-", "0", "1", "-", "1", "5">>
L_Type == <<"T", "y", "p", "e", ":", " ", "C", "r", "e", "d", "i", "t">>
L_TypeBad == <<"T", "y", "p", "e", ":", " ", "c", "r", "e", "d", "i", "t">>
L_Amount == <<"A", "m", "o", "u", "n", "t", ":", " ", "1", "2", ".", "5", "0", " ", "E", "U", "R">>
L_AmountShort == <<"A", "m", "o", "u", "n", "t", ":", " ", "1", "2", ".", "5", "0">>
L_AmountBad == <<"A", "m", "o", "u", "n", "t", ":", " ", "1", "2", ",", "5", "0", " ", "E", "U", "R">>
L_Account == <<"A", "c", "c", "o", "u", "n", "t", ":", " ", "A", "C", "C", "9">>
L_Description == <<"D", "e", "s", "c", "r", "i", "p", "t", "i", "o", "n", ":", " ", "R", "e", "n", "t">>
L_Unknown == <<"M", "e", "m", "o", ":", " ", "l", "u", "n", "c", "h">>

TextLines ==
  { L_IdA, L_IdB, <<>>, L_Blank, L_Dashes, L_Date, L_DateBad, L_Executed, L_ExecutedBad, L_Type, L_TypeBad,
    L_Amount, L_AmountShort, L_AmountBad, L_Account, L_Description, L_Unknown }

\* parse_text entered, nothing read yet
StartFrame ==
  [pc |-> "open", line |-> <<>>, line_num |-> 0, account_id |-> None,
   current_transaction |-> None, transactions |-> <<>>, ret |-> NoResult]

\* the loop state of the frame, as text_line_step takes it
LoopState(f) ==
  [current_transaction |-> f.current_transaction, transactions |-> f.transactions]

codec == <<batch, stream, sfmt, prev, pfmt, decoded, result, rfmt, pc>>

TextInit ==
  /\ batch = NoBatch
  /\ stream = <<>>
  /\ sfmt = "none"
  /\ prev = <<>>
  /\ pfmt = "none"
  /\ decoded = NoResult
  /\ result = NoResult
  /\ rfmt = "none"
  /\ pc = "none"
  /\ frame = StartFrame
  /\ cmp = NoRun
  /\ args = NoArgs

\* parse_text l.42-48: the first line is taken as the header; no line at all
\* is the error `empty file`
ReadHeader ==
  /\ frame.pc = "open"
  /\ \/ frame' = [frame EXCEPT !.pc = "returned",
                               !.ret = Err(ParseError("Text", "empty file", 0))]
     \/ \E header \in TextHeaders :
          frame' = [frame EXCEPT !.pc = "loop", !.line = header, !.line_num = 1,
                                 !.account_id = text_header_account(header)]
  /\ UNCHANGED <<codec, cmp, args>>

\* parse_text l.52-143: one iteration of the line loop, on the next line of
\* the input; an error returns at once
ReadLine ==
  /\ frame.pc = "loop"
  /\ frame.line_num < MaxLines
  /\ \E next_line \in TextLines :
       LET st == text_line_step(Ok(LoopState(frame)),
                                [i \in {frame.line_num + 1} |-> next_line],
                                frame.line_num + 1)
       IN frame' = IF st.ok
                   THEN [frame EXCEPT !.line = next_line, !.line_num = frame.line_num + 1,
                                      !.current_transaction = st.v.current_transaction,
                                      !.transactions = st.v.transactions]
                   ELSE [frame EXCEPT !.line = next_line, !.line_num = frame.line_num + 1,
                                      !.pc = "returned", !.ret = st]
  /\ UNCHANGED <<codec, cmp, args>>

\* parse_text l.145-152: the input has ended; the transaction being built is
\* pushed and the batch returned
EndOfInput ==
  /\ frame.pc = "loop"
  /\ frame' = [frame EXCEPT !.pc = "returned",
                            !.current_transaction = None,
                            !.transactions = text_flush(LoopState(frame)).transactions,
                            !.ret = Ok(TransactionBatch(frame.account_id,
                                                        text_flush(LoopState(frame)).transactions))]
  /\ UNCHANGED <<codec, cmp, args>>

TextNext == ReadHeader \/ ReadLine \/ EndOfInput

TextSpec == TextInit /\ [][TextNext]_vars

(***************************************************************************)
(* The command-line tools: format tags, the comparer, the converter run    *)
(* from its tags.                                                          *)
(***************************************************************************)
\* str::to_lowercase on ASCII letters
UpperCase == <<"A", "B", "C", "D", "E", "F", "G", "H", "I", "J", "K", "L", "M", "N", "O", "P", "Q", "R", "S", "T", "U", "V", "W", "X", "Y", "Z">>
LowerCase == <<"a", "b", "c", "d", "e", "f", "g", "h", "i", "j", "k", "l", "m", "n", "o", "p", "q", "r", "s", "t", "u", "v", "w", "x", "y", "z">>
ToLowerChar(c) ==
  IF \E i \in 1..Len(UpperCase) : UpperCase[i] = c
  THEN LowerCase[CHOOSE i \in 1..Len(UpperCase) : UpperCase[i] = c]
  ELSE c
ToLowercase(s) == [i \in 1..Len(s) |-> ToLowerChar(s[i])]

\* Error::UnsupportedFormat
UnsupportedFormat(message) == [kind |-> "UnsupportedFormat", message |-> message]

\* a faulty variant of FormatFromStr: the tag is matched as given
FormatFromStr_CaseSensitive(s) ==
  IF s = <<"c", "s", "v">> THEN Ok(Csv)
  ELSE IF s \in {<<"t", "e", "x", "t">>, <<"t", "x", "t">>} THEN Ok(Text)
  ELSE IF s \in {<<"b", "i", "n", "a", "r", "y">>, <<"b", "i", "n">>} THEN Ok(Binary)
  ELSE Err(UnsupportedFormat("unknown format"))

\* Format::from_str
FormatFromStr(s) ==
  IF ToLowercase(s) = <<"c", "s", "v">> THEN Ok(Csv)
  ELSE IF ToLowercase(s) \in {<<"t", "e", "x", "t">>, <<"t", "x", "t">>} THEN Ok(Text)
  ELSE IF ToLowercase(s) \in {<<"b", "i", "n", "a", "r", "y">>, <<"b", "i", "n">>} THEN Ok(Binary)
  ELSE Err(UnsupportedFormat("unknown format"))

\* Decimal's ==: equality of the numbers, whatever their scales
Pow10(n) == IF n = 0 THEN 1 ELSE IF n = 1 THEN 10 ELSE IF n = 2 THEN 100 ELSE 1000
DecimalEq(a, b) ==
  /\ a.m * Pow10(b.scale) = b.m * Pow10(a.scale)
  /\ (a.m # 0 => a.neg = b.neg)

\* Money's derived ==
MoneyEq(a, b) == DecimalEq(a.amount, b.amount) /\ a.currency = b.currency

\* a faulty variant of transactions_equal: the category is not compared
transactions_equal_NoCategory(tx1, tx2) ==
  /\ tx1.id = tx2.id
  /\ tx1.posted_at = tx2.posted_at
  /\ tx1.executed_at = tx2.executed_at
  /\ tx1.kind = tx2.kind
  /\ MoneyEq(tx1.amount, tx2.amount)
  /\ tx1.description = tx2.description
  /\ tx1.account = tx2.account
  /\ tx1.counterparty = tx2.counterparty

\* transactions_equal
transactions_equal(tx1, tx2) ==
  /\ tx1.id = tx2.id
  /\ tx1.posted_at = tx2.posted_at
  /\ tx1.executed_at = tx2.executed_at
  /\ tx1.kind = tx2.kind
  /\ MoneyEq(tx1.amount, tx2.amount)
  /\ tx1.description = tx2.description
  /\ tx1.account = tx2.account
  /\ tx1.counterparty = tx2.counterparty
  /\ tx1.category = tx2.category

\* print_transaction_diff: the labels of the lines it prints, in order
print_transaction_diff(tx1, tx2) ==
  (IF tx1.id # tx2.id THEN <<"ID">> ELSE <<>>)
    \o (IF tx1.posted_at # tx2.posted_at THEN <<"Posted Date">> ELSE <<>>)
    \o (IF tx1.executed_at # tx2.executed_at THEN <<"Executed Date">> ELSE <<>>)
    \o (IF tx1.kind # tx2.kind THEN <<"Kind">> ELSE <<>>)
    \o (IF ~MoneyEq(tx1.amount, tx2.amount) THEN <<"Amount">> ELSE <<>>)
    \o (IF tx1.description # tx2.description THEN <<"Description">> ELSE <<>>)
    \o (IF tx1.account # tx2.account THEN <<"Account">> ELSE <<>>)
    \o (IF tx1.counterparty # tx2.counterparty THEN <<"Counterparty">> ELSE <<>>)
    \o (IF tx1.category # tx2.category THEN <<"Category">> ELSE <<>>)

\* what a run of the comparer leaves behind: its exit status and what it
\* printed on stdout and stderr
Exit(status, stdout, stderr) == [status |-> status, stdout |-> stdout, stderr |-> stderr]

\* compare_batches, and main's exit with status 0 after it has returned Ok
compare_batches(batch1, batch2) ==
  IF Len(batch1.transactions) # Len(batch2.transactions)
  THEN Exit(1, <<[msg |-> "different number of transactions",
                  n1 |-> Len(batch1.transactions), n2 |-> Len(batch2.transactions)]>>, <<>>)
  ELSE IF \A i \in 1..Len(batch1.transactions) :
            transactions_equal(batch1.transactions[i], batch2.transactions[i])
  THEN Exit(0, <<[msg |-> "identical"]>>, <<>>)
  ELSE Exit(1,
            <<[msg |-> "differ"]>>
              \o Concat([i \in 1..Len(batch1.transactions) |->
                   IF transactions_equal(batch1.transactions[i], batch2.transactions[i])
                   THEN <<>>
                   ELSE <<[msg |-> "transaction", index |-> i, id |-> batch1.transactions[i].id,
                           diff |-> print_transaction_diff(batch1.transactions[i],
                                                           batch2.transactions[i])]>>]),
            <<>>)

\* main of the comparer on the Err that run has returned
exit_on_error(e) == Exit(1, <<>>, <<e>>)

\* the format tags given on command lines
Tags ==
  { <<"c", "s", "v">>, <<"C", "S", "V">>, <<"T", "e", "x", "t">>, <<"t", "x", "t">>, <<"b", "i", "n", "a", "r", "y">>, <<"b", "I", "n">>, <<"j", "s", "o", "n">>, <<>>, <<"c", "s", "v", " ">>, <<"t", "e", "x">>, <<"b", "i", "n", "a", "r", "y", "x">> }

\* the batches behind the files the comparer is given: the TX001 scenario,
\* TX001 with one of its nine fields changed, with its amount at another
\* scale, under another account_id, followed or preceded by TX002, no
\* transaction
ComparedTransactions ==
  { TX001,
    [TX001 EXCEPT !.id = <<"T", "X", "0", "0", "I">>],
    [TX001 EXCEPT !.posted_at = Date(2024, 1, 16)],
    [TX001 EXCEPT !.executed_at = None],
    [TX001 EXCEPT !.kind = Debit],
    [TX001 EXCEPT !.amount.amount = Dec(FALSE, 100051, 2)],
    [TX001 EXCEPT !.amount.amount = Dec(FALSE, 10005, 1)],
    [TX001 EXCEPT !.amount.currency = <<"E", "U", "R">>],
    [TX001 EXCEPT !.description = <<"S", "a", "l", "a", "r", "y">>],
    [TX001 EXCEPT !.account = None],
    [TX001 EXCEPT !.counterparty = Some(<<"E", "m", "p", "l", "o", "y", "e", "r">>)],
    [TX001 EXCEPT !.category = None] }

ComparedBatches ==
  {TransactionBatch(Some(<<"A", "C", "C", "1", "2", "3">>), <<t>>) : t \in ComparedTransactions}
    \cup { TransactionBatch(Some(<<"A", "C", "C", "9", "9", "9">>), <<TX001>>),
           TransactionBatch(Some(<<"A", "C", "C", "1", "2", "3">>), <<>>),
           TransactionBatch(Some(<<"A", "C", "C", "1", "2", "3">>), <<TX001, TX002>>),
           TransactionBatch(Some(<<"A", "C", "C", "1", "2", "3">>), <<TX002, TX001>>),
           TransactionBatch(Some(<<"A", "C", "C", "1", "2", "3">>), <<TX001, [TX002 EXCEPT !.kind = Credit]>>) }

\* the files the comparer is given in a format: those batches written in
\* it, and a file that does not decode
UndecodableFile(format) ==
  IF format = Csv THEN FileOf(<<<<"I", "d", ",", "D", "a", "t", "e">>, L_TX001>>, TRUE)
  ELSE IF format = Text THEN <<>>
  ELSE <<0, 0, 0, 0>>

ComparedCsvFiles == {write_csv(b) : b \in ComparedBatches} \cup {UndecodableFile(Csv)}
ComparedTextFiles == {write_text(b) : b \in ComparedBatches} \cup {UndecodableFile(Text)}
ComparedBinaryFiles == {write_binary(b) : b \in ComparedBatches} \cup {UndecodableFile(Binary)}
ComparedFiles(format) ==
  IF format = Csv THEN ComparedCsvFiles
  ELSE IF format = Text THEN ComparedTextFiles
  ELSE ComparedBinaryFiles

\* the files given as file1: TX001 with and without its executed date, TX001
\* and TX002, no transaction, and the file that does not decode
FirstBatches ==
  { TransactionBatch(Some(<<"A", "C", "C", "1", "2", "3">>), <<TX001>>),
    TransactionBatch(Some(<<"A", "C", "C", "1", "2", "3">>), <<[TX001 EXCEPT !.executed_at = None]>>),
    TransactionBatch(Some(<<"A", "C", "C", "1", "2", "3">>), <<TX001, TX002>>),
    TransactionBatch(Some(<<"A", "C", "C", "1", "2", "3">>), <<>>) }
FirstCsvFiles == {write_csv(b) : b \in FirstBatches} \cup {UndecodableFile(Csv)}
FirstTextFiles == {write_text(b) : b \in FirstBatches} \cup {UndecodableFile(Text)}
FirstBinaryFiles == {write_binary(b) : b \in FirstBatches} \cup {UndecodableFile(Binary)}
FirstFiles(format) ==
  IF format = Csv THEN FirstCsvFiles
  ELSE IF format = Text THEN FirstTextFiles
  ELSE FirstBinaryFiles

\* the file the converter is given in a format
ConvertedFile(format) ==
  IF format = Csv THEN F_CsvTX001 ELSE IF format = Text THEN F_TextTX001 ELSE F_BinaryTX001

\* the comparer started with its two format tags
StartRun ==
  [pc |-> "start", format1 |-> <<>>, format2 |-> <<>>, f1 |-> NoResult, f2 |-> NoResult,
   file1 |-> <<>>, file2 |-> <<>>, batch1 |-> NoResult, batch2 |-> NoResult, exit |-> NoResult]

CmpInit ==
  /\ batch = NoBatch
  /\ prev = <<>>
  /\ pfmt = "none"
  /\ decoded = NoResult
  /\ result = NoResult
  /\ rfmt = "none"
  /\ frame = NoFrame
  /\ args = NoArgs
  /\ \/ /\ cmp = StartRun
        /\ stream = <<>>
        /\ sfmt = "none"
        /\ pc = "none"
     \/ /\ cmp = NoRun
        /\ \E format \in Format : stream = ConvertedFile(format) /\ sfmt = format
        /\ pc = "supplied"

\* comparer run: Args::parse and the two calls of Format::from_str
ParseFormats(format1, format2) ==
  /\ cmp.pc = "start"
  /\ cmp' = [cmp EXCEPT !.format1 = format1, !.format2 = format2,
                        !.f1 = FormatFromStr(format1),
                        !.f2 = IF FormatFromStr(format1).ok THEN FormatFromStr(format2) ELSE NoResult,
                        !.pc = IF FormatFromStr(format1).ok /\ FormatFromStr(format2).ok
                               THEN "formats" ELSE "exited",
                        !.exit = IF ~FormatFromStr(format1).ok
                                 THEN exit_on_error(FormatFromStr(format1).err)
                                 ELSE IF ~FormatFromStr(format2).ok
                                 THEN exit_on_error(FormatFromStr(format2).err)
                                 ELSE NoResult]
  /\ UNCHANGED <<codec, frame, args>>

\* comparer run: file1 opened and parsed in format1
ParseFile1 ==
  /\ cmp.pc = "formats"
  /\ \E file \in FirstFiles(cmp.f1.v) :
       \E batch1 \in {parse(file, cmp.f1.v)} :
         cmp' = [cmp EXCEPT !.file1 = file, !.batch1 = batch1,
                            !.pc = IF batch1.ok THEN "parsed1" ELSE "exited",
                            !.exit = IF batch1.ok THEN NoResult ELSE exit_on_error(batch1.err)]
  /\ UNCHANGED <<codec, frame, args>>

\* comparer run: file2 opened and parsed in format2, and the two batches
\* compared
ParseFile2AndCompare ==
  /\ cmp.pc = "parsed1"
  /\ \E file \in ComparedFiles(cmp.f2.v) :
       \E batch2 \in {parse(file, cmp.f2.v)} :
         cmp' = [cmp EXCEPT !.file2 = file, !.batch2 = batch2, !.pc = "exited",
                            !.exit = IF batch2.ok THEN compare_batches(cmp.batch1.v, batch2.v)
                                     ELSE exit_on_error(batch2.err)]
  /\ UNCHANGED <<codec, frame, args>>

\* converter run from its tags: the two calls of Format::from_str, then the
\* input parsed and the batch written
RunTagged(input_format, output_format) ==
  /\ pc = "supplied"
  /\ cmp = NoRun
  /\ FormatFromStr(input_format).ok => Readable(FormatFromStr(input_format).v, sfmt)
  /\ args' = [input_format |-> input_format, output_format |-> output_format]
  /\ prev' = stream
  /\ pfmt' = IF FormatFromStr(input_format).ok THEN FormatFromStr(input_format).v ELSE "none"
  /\ decoded' = IF ~FormatFromStr(input_format).ok THEN FormatFromStr(input_format)
                ELSE IF ~FormatFromStr(output_format).ok THEN FormatFromStr(output_format)
                ELSE parse(stream, FormatFromStr(input_format).v)
  /\ IF decoded'.ok
     THEN /\ stream' = write(decoded'.v, FormatFromStr(output_format).v)
          /\ sfmt' = FormatFromStr(output_format).v
          /\ pc' = "converted"
     ELSE /\ stream' = <<>>
          /\ sfmt' = "none"
          /\ pc' = "failed"
  /\ UNCHANGED <<batch, result, rfmt, frame, cmp>>

CmpNext ==
  \/ \E format1 \in Tags, format2 \in Tags : ParseFormats(format1, format2)
  \/ ParseFile1
  \/ ParseFile2AndCompare
  \/ \E input_format \in Tags, output_format \in Tags : RunTagged(input_format, output_format)

CmpSpec == CmpInit /\ [][CmpNext]_vars

(***************************************************************************)
(* Properties                                                              *)
(***************************************************************************)
\* the stream was written from `batch` in `format` and then parsed in it
RoundTripped(format) ==
  /\ pc = "parsed"
  /\ batch # NoBatch
  /\ decoded = NoResult
  /\ sfmt = format
  /\ rfmt = format

\* the converter has run on a stream written from `batch` in `format`
ConvertedFromWritten(format) ==
  /\ pc \in {"converted", "failed"}
  /\ batch # NoBatch
  /\ pfmt = format

\* the six string fields of a transaction, as options
StringFields(tx) ==
  <<Some(tx.id), Some(tx.amount.currency), Some(tx.description), tx.account, tx.counterparty,
    tx.category>>

\* every string field of the batch is a single line
SingleLine(b) ==
  /\ IsSome(b.account_id) => ~Contains(b.account_id.some, NL)
  /\ \A i \in 1..Len(b.transactions) : \A k \in 1..6 :
       LET o == StringFields(b.transactions[i])[k]
       IN IsSome(o) => ~Contains(o.some, NL)

\* no string field of a transaction begins or ends with a blank
Unpadded(b) ==
  \A i \in 1..Len(b.transactions) : \A k \in 1..6 :
    LET o == StringFields(b.transactions[i])[k]
    IN IsSome(o) => Trim(o.some) = o.some

\* every executed_at of the batch is a whole number of seconds
WholeSeconds(b) ==
  \A i \in 1..Len(b.transactions) :
    IsSome(b.transactions[i].executed_at) => b.transactions[i].executed_at.some.nano = 0

\* sub occurs in s as a contiguous run
OccursIn(sub, s) ==
  \E i \in 0..(Len(s) - Len(sub)) : \A j \in 1..Len(sub) : s[i + j] = sub[j]

\* C1: a batch whose string fields are single-line, written by write_text and
\* parsed by parse_text, comes back equal, account_id and every transaction
\* (the first one too) preserved
C1_TextRoundTrip ==
  (RoundTripped(Text) /\ SingleLine(batch)) => result = Ok(batch)

\* C2: a batch decoded from CSV, written in Text or Binary and parsed in that
\* format again, gives the same transactions in the same order
C2_CrossFormatLossless ==
  (/\ pc = "parsed"
   /\ decoded # NoResult
   /\ pfmt = Csv
   /\ sfmt \in {Text, Binary}
   /\ rfmt = sfmt)
    => (result.ok /\ result.v.transactions = decoded.v.transactions)

\* C3: in each format, a batch without transactions, written and parsed in
\* that format, decodes without error to a batch without transactions
C3_EmptyBatchRoundTrip ==
  \A format \in Format :
    (RoundTripped(format) /\ batch.transactions = <<>>)
      => (result.ok /\ result.v.transactions = <<>>)

\* C4: every string field holding a comma, a double quote or a newline comes
\* back from write_csv followed by parse_csv unchanged
C4_CsvEscapingRoundTrip ==
  RoundTripped(Csv) =>
    \A i \in 1..Len(batch.transactions) : \A k \in 1..6 :
      LET o == StringFields(batch.transactions[i])[k]
      IN (IsSome(o) /\ (Contains(o.some, COMMA) \/ Contains(o.some, Q) \/ Contains(o.some, NL)))
           => /\ result.ok
              /\ Len(result.v.transactions) >= i
              /\ StringFields(result.v.transactions[i])[k] = o

\* C5: parse_csv of write_csv of any batch succeeds with the same transactions
\* in the same order, equal in all nine fields, and account_id None
C5_CsvRoundTrip ==
  RoundTripped(Csv) =>
    (result.ok /\ result.v.transactions = batch.transactions /\ result.v.account_id = None)

\* C6 as stated: parse_binary of write_binary of any batch equals the batch
C6_BinaryRoundTripAnyBatch ==
  RoundTripped(Binary) => result = Ok(batch)

\* C6: parse_binary of write_binary of a batch whose executed_at timestamps
\* are whole seconds equals the batch: account_id, count, order and every
\* field, absent and present options and executed_at included
C6_BinaryRoundTrip ==
  (RoundTripped(Binary) /\ WholeSeconds(batch)) => result = Ok(batch)

C6_Witness ==
  /\ RoundTripped(Binary)
  /\ IsSome(batch.account_id)
  /\ Len(batch.transactions) = 2
  /\ batch.transactions[1].executed_at = None
  /\ batch.transactions[1].counterparty = None
  /\ IsSome(batch.transactions[2].executed_at)
  /\ batch.transactions[2].executed_at.some.nano = 0
  /\ batch.transactions[2].executed_at.some.date.y < 1970
  /\ result.ok

\* C7: the output of write_binary, decoded by parse_binary and encoded again
\* by write_binary, is reproduced byte for byte
C7_BinaryByteExact ==
  ConvertedFromWritten(Binary) =>
    (decoded.ok /\ (sfmt = Binary => stream = prev))

C7_Witness ==
  /\ ConvertedFromWritten(Binary)
  /\ sfmt = Binary
  /\ Len(decoded.v.transactions) = 2
  /\ ~WholeSeconds(batch)
  /\ stream = prev

\* the amount 1000.50 and the amount 1000.5 as they stand in a stream of the
\* format: a CSV column, an `Amount:` line, a length-prefixed string
Amount_1000_50(format) ==
  IF format = Csv THEN <<",", "1", "0", "0", "0", ".", "5", "0", ",">>
  ELSE IF format = Text THEN <<"A", "m", "o", "u", "n", "t", ":", " ", "1", "0", "0", "0", ".", "5", "0", " ">>
  ELSE <<7, 0, 0, 0, 49, 48, 48, 48, 46, 53, 48>>
Amount_1000_5(format) ==
  IF format = Csv THEN <<",", "1", "0", "0", "0", ".", "5", ",">>
  ELSE IF format = Text THEN <<"A", "m", "o", "u", "n", "t", ":", " ", "1", "0", "0", "0", ".", "5", " ">>
  ELSE <<6, 0, 0, 0, 49, 48, 48, 48, 46, 53>>

\* C8: the amount written 1000.50 in a file of any of the three formats is
\* decoded and written again as 1000.50, never 1000.5; and an amount that was
\* decoded, written and decoded again has its scale unchanged
C8_DecimalPrecision ==
  /\ (pc = "converted" /\ prev \in {F_CsvTX001, F_TextTX001, F_BinaryTX001})
       => /\ OccursIn(Amount_1000_50(sfmt), stream)
          /\ ~OccursIn(Amount_1000_5(sfmt), stream)
  /\ (/\ pc = "parsed"
      /\ decoded # NoResult
      /\ rfmt = sfmt
      /\ result.ok
      /\ Len(result.v.transactions) = Len(decoded.v.transactions))
       => \A i \in 1..Len(result.v.transactions) :
            result.v.transactions[i].amount.amount = decoded.v.transactions[i].amount.amount

C8_Witness ==
  /\ pc = "converted"
  /\ prev = F_TextTX001
  /\ sfmt = Text
  /\ decoded.v.transactions[1].amount.amount.scale = 2
  /\ OccursIn(Amount_1000_50(Text), stream)

\* the CSV stream the converter read is in the writer's own form: the file of
\* the TX001 scenario, or the output of write_csv for a batch whose string
\* fields hold no newline and no blank at either end
InWriterForm ==
  \/ prev = F_CsvTX001
  \/ batch # NoBatch /\ SingleLine(batch) /\ Unpadded(batch)

\* C9: CSV input in the writer's own form is decoded, the TX001 scenario to
\* id TX001, kind Credit, amount 1000.50 and currency USD, and write_csv of
\* the decoded batch reproduces the input byte for byte
C9_CsvCanonicalReencode ==
  (pc \in {"converted", "failed"} /\ pfmt = Csv /\ InWriterForm) =>
    /\ decoded.ok
    /\ sfmt = Csv => stream = prev
    /\ prev = F_CsvTX001 =>
         /\ Len(decoded.v.transactions) = 1
         /\ decoded.v.transactions[1].id = <<"T", "X", "0", "0", "1">>
         /\ decoded.v.transactions[1].kind = Credit
         /\ DecimalToString(decoded.v.transactions[1].amount.amount) = <<"1", "0", "0", "0", ".", "5", "0">>
         /\ decoded.v.transactions[1].amount.currency = <<"U", "S", "D">>

\* C10: when the input does not begin with the literal TransactionId, parse_csv
\* returns a Parse error tagged CSV and no batch, whatever the lines contain
C10_CsvHeaderRejected ==
  /\ (pc = "parsed" /\ rfmt = Csv /\ ~StartsWith(stream, S_TransactionId))
       => (~result.ok /\ result.err.kind = "Parse" /\ result.err.format = "CSV")
  /\ (pc = "failed" /\ pfmt = Csv /\ ~StartsWith(prev, S_TransactionId))
       => (~decoded.ok /\ decoded.err.kind = "Parse" /\ decoded.err.format = "CSV")
  /\ (pc = "converted" /\ pfmt = Csv) => StartsWith(prev, S_TransactionId)

C10_Witness ==
  /\ pc = "parsed"
  /\ rfmt = Csv
  /\ stream = FileOf(<<L_TX001, L_TX001>>, TRUE)
  /\ ~result.ok
  /\ result.err.message = "invalid header"

\* the malformed records of the model and the message parse_csv_line gives each
MalformedRecords == { L_Short, L_BadDate, L_BadExec, L_BadType, L_BadAmount }

RecordMessage(l) ==
  IF l = L_Short THEN "insufficient fields (expected at least 7)"
  ELSE IF l = L_BadDate THEN "invalid posted date"
  ELSE IF l = L_BadExec THEN "invalid executed date"
  ELSE IF l = L_BadType THEN "invalid transaction type"
  ELSE "invalid amount"

\* the decode of the input failed with the error of its first malformed
\* record: a Parse error tagged CSV with that record's line number, the
\* header being line 1 and blank lines counted
FailsAtFirstMalformed(input, res) ==
  LET lines == Lines(input)
      malformed == {i \in 2..Len(lines) : lines[i] \in MalformedRecords}
      first == CHOOSE i \in malformed : \A j \in malformed : i <= j
  IN (StartsWith(input, S_TransactionId) /\ malformed # {})
       => res = Err(ParseError("CSV", RecordMessage(lines[first]), first))

\* C12: when a record line of a CSV input with a valid header has fewer than
\* seven fields or an unparsable posted date, executed date, type or amount,
\* parse_csv returns a Parse error tagged CSV carrying the physical line
\* number of the first such record, and no batch, even after valid records
C12_CsvRecordErrors ==
  /\ (pc = "parsed" /\ rfmt = Csv) => FailsAtFirstMalformed(stream, result)
  /\ (pc = "failed" /\ pfmt = Csv) => FailsAtFirstMalformed(prev, decoded)
  /\ (pc = "converted" /\ pfmt = Csv)
       => \A i \in 2..Len(Lines(prev)) : Lines(prev)[i] \notin MalformedRecords

C12_Witness ==
  /\ pc = "parsed"
  /\ rfmt = Csv
  /\ stream = FileOf(<<S_CsvHeader, L_TX001, <<>>, L_Short>>, TRUE)
  /\ result = Err(ParseError("CSV", "insufficient fields (expected at least 7)", 4))

\* 0x59504246 in little-endian byte order
MagicBytes == <<70, 66, 80, 89>>

\* the decode of the bytes failed on their header: on four first bytes that
\* are not the magic number, or on a fifth byte that is not 1; the error
\* is the same whatever bytes follow
HeaderRejected(bytes, res) ==
  /\ (Len(bytes) >= 4 /\ SubSeq(bytes, 1, 4) # MagicBytes)
       => res = Err(ParseError("Binary", "invalid magic number", 0))
  /\ (Len(bytes) >= 5 /\ SubSeq(bytes, 1, 4) = MagicBytes /\ bytes[5] # 1)
       => res = Err(ParseError("Binary", "unsupported version", 0))

\* C14: parse_binary fails with the Parse error "invalid magic number"
\* whenever the first four bytes are not the magic number, four zero bytes
\* included, and fails on a version byte other than 1, whatever the bytes
\* after the header are, and returns no batch
C14_BinaryHeaderFirst ==
  /\ (pc = "parsed" /\ rfmt = Binary) => HeaderRejected(stream, result)
  /\ (pc = "failed" /\ pfmt = Binary) => HeaderRejected(prev, decoded)
  /\ (pc = "converted" /\ pfmt = Binary)
       => (SubSeq(prev, 1, 4) = MagicBytes /\ prev[5] = 1)

C14_Witness ==
  /\ pc = "parsed"
  /\ rfmt = Binary
  /\ stream = <<0, 0, 0, 0>>
  /\ result = Err(ParseError("Binary", "invalid magic number", 0))

\* the record lines of a CSV input: the lines after the header that are not
\* white space only, in input order
RecordLines(input) ==
  LET lines == Lines(input)
  IN SelectSeq([i \in 1..(Len(lines) - 1) |-> lines[i + 1]],
               LAMBDA l : \E k \in 1..Len(l) : l[k] \notin {SP, TAB, CR})

\* the well-formed records of the model
WellFormedRecords == { L_TX001, L_Seven }

\* a successful decode has returned one transaction for each record line, in
\* input order, and an input of a valid header, well-formed records and
\* blank lines is decoded with success
FramedByLines(input, res) ==
  LET records == RecordLines(input)
  IN /\ res.ok
          => /\ Len(res.v.transactions) = Len(records)
             /\ \A k \in 1..Len(records) :
                  res.v.transactions[k] = parse_csv_line(records[k], 0).v
     /\ (/\ StartsWith(input, S_TransactionId)
         /\ \A k \in 1..Len(records) : records[k] \in WellFormedRecords)
          => res.ok

\* C21: on success parse_csv returns exactly one transaction per non-blank
\* line after the header, in input order; lines of white space only are
\* skipped without error and yield no transaction
C21_CsvRecordFraming ==
  /\ (pc = "parsed" /\ rfmt = Csv) => FramedByLines(stream, result)
  /\ (pc \in {"converted", "failed"} /\ pfmt = Csv) => FramedByLines(prev, decoded)

C21_Witness ==
  /\ pc = "parsed"
  /\ rfmt = Csv
  /\ stream = FileOf(<<S_CsvHeader, <<" ">>, L_TX001, <<" ", " ">>, L_Seven, <<>>>>, TRUE)
  /\ result.ok
  /\ Len(result.v.transactions) = 2
  /\ result.v.transactions[1] = TX001
  /\ result.v.transactions[2].id = <<"T", "X", "9">>

\* the line of an optional field under its key, if the field is present
OptionalLine(key, o) == IF IsSome(o) THEN <<key \o o.some>> ELSE <<>>

\* the lines of a transaction in the Text format, in their order
TransactionLines(tx) ==
  <<<<"I", "D", ":", " ">> \o tx.id, <<"D", "a", "t", "e", ":", " ">> \o FormatDate(tx.posted_at)>>
    \o (IF IsSome(tx.executed_at)
        THEN <<<<"E", "x", "e", "c", "u", "t", "e", "d", "D", "a", "t", "e", ":", " ">> \o FormatDateTime(tx.executed_at.some)>> ELSE <<>>)
    \o <<<<"T", "y", "p", "e", ":", " ">> \o (IF tx.kind = Credit THEN <<"C", "r", "e", "d", "i", "t">> ELSE <<"D", "e", "b", "i", "t">>),
         <<"A", "m", "o", "u", "n", "t", ":", " ">> \o DecimalToString(tx.amount.amount) \o <<" ">> \o tx.amount.currency,
         <<"D", "e", "s", "c", "r", "i", "p", "t", "i", "o", "n", ":", " ">> \o tx.description>>
    \o OptionalLine(<<"A", "c", "c", "o", "u", "n", "t", ":", " ">>, tx.account)
    \o OptionalLine(<<"C", "o", "u", "n", "t", "e", "r", "p", "a", "r", "t", "y", ":", " ">>, tx.counterparty)
    \o OptionalLine(<<"C", "a", "t", "e", "g", "o", "r", "y", ":", " ">>, tx.category)

\* the lines of a batch in the Text format: the account line and an empty
\* line if account_id is set, then the transactions, a `---` line before
\* each but the first
BatchLines(b) ==
  (IF IsSome(b.account_id) THEN <<<<"A", "c", "c", "o", "u", "n", "t", ":", " ">> \o b.account_id.some, <<>>>> ELSE <<>>)
    \o Concat([i \in 1..Len(b.transactions) |->
                (IF i > 1 THEN <<<<"-", "-", "-">>>> ELSE <<>>) \o TransactionLines(b.transactions[i])])

\* the number of `---` lines among the lines
SeparatorCount(lines) == Cardinality({i \in 1..Len(lines) : lines[i] = <<"-", "-", "-">>})

\* C22: write_text emits the account line and one empty line first exactly
\* when account_id is set, then for each transaction its lines in the order
\* ID, Date, ExecutedDate if present, Type, Amount, Description, Account,
\* Counterparty and Category if present, each ended by a newline, and a
\* `---` line only between two transactions: n transactions give
\* max(n - 1, 0) of them, none first and none last
C22_TextEncoderLayout ==
  (pc = "written" /\ sfmt = Text)
    => /\ stream = Concat([i \in 1..Len(BatchLines(batch)) |-> BatchLines(batch)[i] \o <<NL>>])
       /\ SingleLine(batch)
            => LET lines == Lines(stream)
                   n == Len(batch.transactions)
               IN /\ lines = BatchLines(batch)
                  /\ SeparatorCount(lines) = IF n > 1 THEN n - 1 ELSE 0
                  /\ lines # <<>> => (lines[1] # <<"-", "-", "-">> /\ lines[Len(lines)] # <<"-", "-", "-">>)
                  /\ IsSome(batch.account_id) <=> (lines # <<>> /\ StartsWith(lines[1], <<"A", "c", "c", "o", "u", "n", "t", ":", " ">>))
                  /\ IsSome(batch.account_id) => lines[2] = <<>>

C22_Witness ==
  /\ pc = "written"
  /\ sfmt = Text
  /\ batch = TransactionBatch(Some(<<"A", "C", "C", "1", "2", "3">>), <<TX002, TX001>>)
  /\ Lines(stream)[10] = <<"-", "-", "-">>
  /\ Lines(stream)[11] = <<"I", "D", ":", " ", "T", "X", "0", "0", "1">>
  /\ Len(Lines(stream)) = 19

\* the error parse_binary gives an input with a spoilt field: a kind byte
\* other than 0 and 1, a string longer than what remains of the input, bytes
\* that are no UTF-8, a count above the number of transactions present
FieldRejected(bytes, res) ==
  /\ bytes \in BinaryKindFiles => res = Err(ParseError("Binary", "invalid kind", 0))
  /\ bytes \in BinaryLengthFiles => res = Err(IoError("failed to fill whole buffer"))
  /\ bytes \in BinaryUtf8Files => res = Err(ParseError("Binary", "invalid UTF-8", 0))
  /\ bytes \in BinaryCountFiles => res = Err(IoError("failed to fill whole buffer"))

SpoiltFiles == BinaryKindFiles \cup BinaryLengthFiles \cup BinaryUtf8Files \cup BinaryCountFiles

\* C23: parse_binary returns an error and no batch when a kind byte is
\* neither 0 nor 1, a string declares more bytes than remain, a string's
\* bytes are no UTF-8, or the count exceeds the transactions present, also
\* when transactions before the spoilt one were read with success
C23_BinaryFieldRejection ==
  /\ (pc = "parsed" /\ rfmt = Binary) => FieldRejected(stream, result)
  /\ (pc = "failed" /\ pfmt = Binary) => FieldRejected(prev, decoded)
  /\ (pc = "converted" /\ pfmt = Binary) => prev \notin SpoiltFiles

C23_Witness ==
  /\ pc = "parsed"
  /\ rfmt = Binary
  /\ stream = [F_BinaryTwo EXCEPT ![141] = 2]
  /\ read_transaction(stream, 21).ok
  /\ read_transaction(stream, 21).v = TX001
  /\ result = Err(ParseError("Binary", "invalid kind", 0))

(***************************************************************************)
(* Properties of parse_text, line by line                                  *)
(***************************************************************************)
\* the line is an `ID:` line, and the id it gives
IsIdLine(l) == StartsWith(Trim(l), S_IdKey)
IdOf(l) == StripPrefix(Trim(l), S_IdKey).some

\* the transactions of the frame in the order they were started: the ones
\* pushed, then the one being built
Built(f) ==
  f.transactions
    \o (IF IsSome(f.current_transaction) THEN <<f.current_transaction.some>> ELSE <<>>)

IdsOf(transactions) == [i \in 1..Len(transactions) |-> transactions[i].id]

\* the step is an iteration of the line loop
LineRead == frame.pc = "loop" /\ frame'.line_num = frame.line_num + 1

\* the step is the successful return at the end of the input
Returned == frame.pc = "loop" /\ frame'.pc = "returned" /\ frame'.ret.ok

\* a transaction as an `ID:` line starts it, every default spelled out
DefaultTransaction(id) ==
  [id |-> id, posted_at |-> [y |-> 1970, m |-> 1, d |-> 1], executed_at |-> None,
   kind |-> "Debit", amount |-> [amount |-> [neg |-> FALSE, m |-> 0, scale |-> 0], currency |-> <<>>],
   description |-> <<>>, account |-> None, counterparty |-> None, category |-> None]

\* C11: an `ID:` line read while a transaction is being built pushes that
\* transaction and starts a new one; after two consecutive `ID:` lines the
\* last two transactions of the frame are theirs, in input order
C11_ImplicitFlush ==
  [][/\ (LineRead /\ IsIdLine(frame'.line) /\ IsSome(frame.current_transaction))
          => /\ frame'.pc = "loop"
             /\ frame'.transactions = Append(frame.transactions, frame.current_transaction.some)
             /\ frame'.current_transaction = Some(DefaultTransaction(IdOf(frame'.line)))
     /\ (LineRead /\ frame.line_num >= 2 /\ IsIdLine(frame.line) /\ IsIdLine(frame'.line))
          => LET built == Built(frame')
             IN /\ Len(built) >= 2
                /\ built[Len(built) - 1] = DefaultTransaction(IdOf(frame.line))
                /\ built[Len(built)] = DefaultTransaction(IdOf(frame'.line))
     /\ Returned => frame'.ret.v.transactions = Built(frame)]_vars

C11_Witness ==
  /\ frame.pc = "returned"
  /\ frame.line_num = 3
  /\ frame.line = L_IdB
  /\ frame.ret.ok
  /\ frame.ret.v.transactions = <<DefaultTransaction(<<"A">>), DefaultTransaction(<<"B">>)>>

\* the lines of the model whose Date, ExecutedDate, Type or Amount value is
\* malformed
MalformedLines == { L_DateBad, L_ExecutedBad, L_TypeBad, L_AmountShort, L_AmountBad }

\* C13: a malformed Date, ExecutedDate, Type or Amount line read while a
\* transaction is being built makes parse_text return a Parse error tagged
\* "Text" that carries the number of that line in the input, counted from 1
\* for the first line; the call returns no batch, whatever was pushed before
C13_TextParseErrors ==
  [][(LineRead /\ frame'.line \in MalformedLines /\ IsSome(frame.current_transaction))
       => /\ frame'.pc = "returned"
          /\ ~frame'.ret.ok
          /\ frame'.ret.err.kind = "Parse"
          /\ frame'.ret.err.format = "Text"
          /\ frame'.ret.err.line = frame'.line_num
          /\ frame'.line_num = frame.line_num + 1
          /\ frame.line_num >= 1]_vars

C13_Witness ==
  /\ frame.pc = "returned"
  /\ ~frame.ret.ok
  /\ frame.ret.err = ParseError("Text", "invalid type", 5)
  /\ frame.line = L_TypeBad
  /\ frame.line_num = 5
  /\ Len(frame.transactions) = 1

\* the ids of the `ID:` line just read, if it is one
IdRead(l) == IF IsIdLine(l) THEN <<IdOf(l)>> ELSE <<>>

\* the step reads the first line of the input
HeaderRead == frame.pc = "open" /\ frame'.pc = "loop"

\* C17: every line read adds its id to the ids of the transactions started,
\* in input order, exactly when it is an `ID:` line, the first line of the
\* input included, and a successful return hands back exactly the
\* transactions started, each once and in that order
C17_TextExactlyOnce ==
  [][/\ HeaderRead => IdsOf(Built(frame')) = IdRead(frame'.line)
     /\ (LineRead /\ frame'.pc = "loop")
          => IdsOf(Built(frame')) = IdsOf(Built(frame)) \o IdRead(frame'.line)
     /\ Returned => frame'.ret.v.transactions = Built(frame)]_vars

\* the same for the lines after the first: what holds of the code
TextExactlyOnceAfterHeader ==
  [][/\ HeaderRead => Built(frame') = <<>>
     /\ (LineRead /\ frame'.pc = "loop")
          => /\ IdsOf(Built(frame')) = IdsOf(Built(frame)) \o IdRead(frame'.line)
             /\ Len(frame'.transactions) >= Len(frame.transactions)
             /\ SubSeq(frame'.transactions, 1, Len(frame.transactions)) = frame.transactions
     /\ Returned => frame'.ret.v.transactions = Built(frame)]_vars

\* the delimiter lines of the model
Delimiters == { <<>>, L_Blank, L_Dashes }

\* C18: in every state of the line loop a blank line and a `---` line have
\* the same effect: the transaction being built, if any, is pushed and no
\* transaction is being built afterwards; with none being built nothing
\* changes
C18_DelimiterEquivalence ==
  [][(LineRead /\ frame'.line \in Delimiters)
       => /\ frame'.pc = "loop"
          /\ frame'.current_transaction = None
          /\ frame'.transactions = Built(frame)
          /\ frame'.account_id = frame.account_id
          /\ \A d \in Delimiters :
               text_line_step(Ok(LoopState(frame)), [i \in {1} |-> d], 1) = Ok(LoopState(frame'))]_vars

C18_Witness ==
  /\ frame.pc = "loop"
  /\ frame.line = L_Dashes
  /\ frame.line_num = 4
  /\ frame.current_transaction = None
  /\ Len(frame.transactions) = 2

\* C19: account_id is set by the first line alone: Some(value) exactly when
\* that line is `Account: <value>`, None for any other first line, which is
\* no error; no later line changes it, and a later `Account:` line sets only
\* the account of the transaction being built
C19_FirstLine ==
  [][/\ HeaderRead
          => /\ frame'.account_id =
                  IF /\ Len(frame'.line) >= Len(S_AccountKey)
                     /\ SubSeq(frame'.line, 1, Len(S_AccountKey)) = S_AccountKey
                  THEN Some(Trim(SubSeq(frame'.line, Len(S_AccountKey) + 1, Len(frame'.line))))
                  ELSE None
             /\ frame'.ret = NoResult
     /\ LineRead => frame'.account_id = frame.account_id
     /\ (LineRead /\ frame'.line = L_Account)
          => /\ frame'.pc = "loop"
             /\ frame'.transactions = frame.transactions
             /\ frame'.current_transaction =
                  IF IsSome(frame.current_transaction)
                  THEN Some([frame.current_transaction.some EXCEPT !.account = Some(<<"A", "C", "C", "9">>)])
                  ELSE None
     /\ Returned => frame'.ret.v.account_id = frame.account_id]_vars

C19_Witness ==
  /\ frame.pc = "returned"
  /\ frame.ret.ok
  /\ frame.ret.v.account_id = Some(<<"A", "C", "C", "7">>)
  /\ Len(frame.ret.v.transactions) = 1
  /\ frame.ret.v.transactions[1].account = Some(<<"A", "C", "C", "9">>)

\* the lines of the model that set a field, and the field each sets
WellFormedLines == { L_Date, L_Executed, L_Type, L_Amount, L_Account, L_Description }

FieldsSetBy(l) ==
  IF l = L_Date THEN {"posted_at"}
  ELSE IF l = L_Executed THEN {"executed_at"}
  ELSE IF l = L_Type THEN {"kind"}
  ELSE IF l = L_Amount THEN {"amount"}
  ELSE IF l = L_Account THEN {"account"}
  ELSE IF l = L_Description THEN {"description"}
  ELSE {}

TransactionFields ==
  {"id", "posted_at", "executed_at", "kind", "amount", "description", "account",
   "counterparty", "category"}

InAnyCase(tag, word) ==
  /\ Len(tag) = Len(word)
  /\ \A i \in 1..Len(word) :
       \/ tag[i] = word[i]
       \/ \E k \in 1..Len(LowerCase) : word[i] = LowerCase[k] /\ tag[i] = UpperCase[k]

\* the format a tag stands for, "none" if it stands for none
AcceptedFormat(tag) ==
  IF InAnyCase(tag, <<"c", "s", "v">>) THEN Csv
  ELSE IF InAnyCase(tag, <<"t", "e", "x", "t">>) \/ InAnyCase(tag, <<"t", "x", "t">>) THEN Text
  ELSE IF InAnyCase(tag, <<"b", "i", "n", "a", "r", "y">>) \/ InAnyCase(tag, <<"b", "i", "n">>) THEN Binary
  ELSE "none"

\* the codec of each format
DecodedBy(format, input) ==
  IF format = Csv THEN parse_csv(input)
  ELSE IF format = Text THEN parse_text(input)
  ELSE parse_binary(input)

EncodedBy(format, b) ==
  IF format = Csv THEN write_csv(b)
  ELSE IF format = Text THEN write_text(b)
  ELSE write_binary(b)

\* the comparer has exited on a format tag, before opening a file
ExitedOnTag == cmp.pc = "exited" /\ cmp.batch1 = NoResult

\* C15: Format::from_str accepts csv, text, txt, binary and bin in any
\* letter case, as Csv, Text, Text, Binary, Binary, and gives UnsupportedFormat
\* for every other tag; the comparer and the converter then decode with
\* parse_csv, parse_text or parse_binary and encode with write_csv,
\* write_text or write_binary according to the Format value
C15_FormatTags ==
  /\ cmp.pc \in {"formats", "parsed1"} \/ (cmp.pc = "exited" /\ ~ExitedOnTag)
       => /\ AcceptedFormat(cmp.format1) # "none"
          /\ AcceptedFormat(cmp.format2) # "none"
          /\ cmp.f1 = Ok(AcceptedFormat(cmp.format1))
          /\ cmp.f2 = Ok(AcceptedFormat(cmp.format2))
          /\ cmp.batch1 # NoResult
               => cmp.batch1 = DecodedBy(AcceptedFormat(cmp.format1), cmp.file1)
          /\ cmp.batch2 # NoResult
               => cmp.batch2 = DecodedBy(AcceptedFormat(cmp.format2), cmp.file2)
  /\ ExitedOnTag
       => /\ AcceptedFormat(cmp.format1) = "none" \/ AcceptedFormat(cmp.format2) = "none"
          /\ cmp.exit = Exit(1, <<>>, <<UnsupportedFormat("unknown format")>>)
  /\ args # NoArgs
       => IF AcceptedFormat(args.input_format) = "none" \/ AcceptedFormat(args.output_format) = "none"
          THEN pc = "failed" /\ decoded = Err(UnsupportedFormat("unknown format"))
          ELSE /\ decoded = DecodedBy(AcceptedFormat(args.input_format), prev)
               /\ decoded.ok
                    => /\ pc = "converted"
                       /\ stream = EncodedBy(AcceptedFormat(args.output_format), decoded.v)

C15_Witness ==
  /\ args # NoArgs
  /\ args.input_format = <<"C", "S", "V">>
  /\ args.output_format = <<"b", "I", "n">>
  /\ pc = "converted"
  /\ prev = F_CsvTX001
  /\ decoded = parse_csv(prev)
  /\ stream = write_binary(TransactionBatch(None, <<TX001>>))

\* the two decoded batches differ: in the number of their transactions, or
\* two transactions at the same position in one of the nine fields, amounts
\* being compared as numbers
FieldDiffers(tx1, tx2, field) ==
  IF field = "amount"
  THEN ~DecimalEq(tx1.amount.amount, tx2.amount.amount) \/ tx1.amount.currency # tx2.amount.currency
  ELSE tx1[field] # tx2[field]

BatchesDiffer(b1, b2) ==
  \/ Len(b1.transactions) # Len(b2.transactions)
  \/ \E i \in 1..Len(b1.transactions) :
       \E field \in TransactionFields :
         FieldDiffers(b1.transactions[i], b2.transactions[i], field)

\* the comparer has decoded both files
BothDecoded == cmp.pc = "exited" /\ cmp.batch2 # NoResult /\ cmp.batch2.ok

\* C16: once both files are decoded, the comparer exits with a non-zero
\* status whenever the batches differ in transaction count or in a field of
\* two transactions at the same position, and it prints the identical
\* message and exits with status 0 exactly when they do not
C16_ComparerOutcome ==
  BothDecoded
    => /\ BatchesDiffer(cmp.batch1.v, cmp.batch2.v)
            => /\ cmp.exit.status # 0
               /\ \A k \in 1..Len(cmp.exit.stdout) : cmp.exit.stdout[k].msg # "identical"
       /\ ~BatchesDiffer(cmp.batch1.v, cmp.batch2.v)
            => /\ cmp.exit.status = 0
               /\ cmp.exit.stdout = <<[msg |-> "identical"]>>

C16_Witness ==
  /\ BothDecoded
  /\ cmp.f1.v = Csv
  /\ cmp.f2.v = Binary
  /\ cmp.batch1.v.transactions = <<TX001>>
  /\ cmp.batch2.v.transactions = <<[TX001 EXCEPT !.category = None]>>
  /\ cmp.exit.status = 1
  /\ cmp.exit.stdout =
       <<[msg |-> "differ"],
         [msg |-> "transaction", index |-> 1, id |-> TX001.id, diff |-> <<"Category">>]>>

BatchTX001 == [account_id |-> Some(<<"A", "C", "C", "1", "2", "3">>), transactions |-> <<TX001>>]

\* C25: a Binary input whose has_executed byte or optional-string presence
\* byte is non-zero and not 1 decodes without error to the batch of the input
\* with that flag 1, every flagged value present, and the converter writes
\* that batch back in Binary with the flag 1, not the bytes it read
C25_NonCanonicalFlags ==
  /\ (pc = "parsed" /\ rfmt = Binary /\ stream \in BinaryFlagFiles)
       => /\ result = Ok(BatchTX001)
          /\ result = parse_binary(F_BinaryTX001)
  /\ (pc \in {"converted", "failed"} /\ pfmt = Binary /\ prev \in BinaryFlagFiles)
       => /\ pc = "converted"
          /\ decoded = Ok(BatchTX001)
          /\ sfmt = Binary => /\ stream = F_BinaryTX001
                               /\ stream # prev
                               /\ \A p \in FlagPositions : stream[p] = 1

C25_Witness ==
  /\ pc = "converted" /\ pfmt = Binary /\ sfmt = Binary
  /\ prev = [F_BinaryTX001 EXCEPT ![34] = 2]
  /\ decoded.v.transactions[1].executed_at = TX001.executed_at
  /\ IsSome(TX001.executed_at)
  /\ stream[34] = 1
====
